--------------------------- MODULE MCLoginVerify ---------------------------
(* LoginVerify and Md5Encode on small instances.                           *)
EXTENDS LoginVerify, Md5Encode

(* The message that Login, Register and ResetPassWord hash, for passwords  *)
(* of up to MaxPassword bytes, is padded as MD5 is to, but for one length: *)
(* see PaddingIsStandard.                                                  *)
HashIsStandard == pc[Caller] = "receive" => PaddingIsStandard
=============================================================================
