--------------------------- MODULE AccountHistory ---------------------------
(***************************************************************************)
(* The accounts of table user as the days go by: ClientParse with column   *)
(* EXP, which Register fills and BeyondDeadLine compares with the date,    *)
(* and with what the code does not keep: the day of each registration, and *)
(* whether a password was replaced between the two queries of another      *)
(* client's ResetPassWord.  The clock of the machine is external.          *)
(***************************************************************************)
EXTENDS ClientParse, DeadLine

CONSTANT Days  \* the days on which something happens

ASSUME AccountHistoryAssumption == Days \subseteq Dates /\ NULL \notin Days

VARIABLES
  today,     \* the date GetSystemTime gives
  exp,       \* column EXP of each row
  born,      \* history: of each row, the day of its registration
  overtaken  \* history: of each client between the comparison and the UPDATE of
             \* ResetPassWord, has another one replaced the password it compared?

accounts == <<exp, born>>
history == <<vars, today, accounts, overtaken>>

(* An account found at the start was registered on one of the days.        *)
HistoryInit ==
  /\ Init
  /\ today \in Days
  /\ born \in [Ids -> Days \cup {NULL}]
  /\ \A i \in Ids :
       IF user[i] = NULL THEN born[i] = NULL
       ELSE born[i] # NULL /\ DayNumber(born[i]) <= DayNumber(today)
  /\ exp = [i \in Ids |-> IF born[i] = NULL THEN NULL ELSE GetDefaultExp(born[i])]
  /\ overtaken = [c \in Clients |-> FALSE]

(* Midnight, or several.                                                   *)
Tick ==
  /\ today' \in { day \in Days : DayNumber(day) > DayNumber(today) }
  /\ UNCHANGED <<vars, accounts, overtaken>>

-----------------------------------------------------------------------------
(* The rows this step inserts, and those it gives another password.        *)
Inserted == { i \in Ids : user[i] = NULL /\ user'[i] # NULL }
Changed(u) == { i \in Named(u) : user'[i] # user[i] }

(* The INSERT of Register carries GetDefaultExp.                           *)
Enter ==
  /\ born' = [i \in Ids |-> IF i \in Inserted THEN today ELSE born[i]]
  /\ exp' = [i \in Ids |-> IF i \in Inserted THEN GetDefaultExp(today) ELSE exp[i]]

Overtake(c) ==
  overtaken' = [d \in Clients |->
    /\ pc[d] = "change"
    /\ pc'[d] = "change"
    /\ overtaken[d] \/ (d # c /\ Changed(req[d].userName) # {})]

(* BeyondDeadLine has fetched the row of its user and answers by its EXP.  *)
Judges(c) ==
  /\ At(c, "deadline", "query")
  /\ pc'[c] = "recycle"
  /\ m_strResult'[c] \in {"0", "1"}

Judge(c) ==
  Judges(c) => \E i \in Named(m_userName[c]) : m_strResult'[c] = Beyond(exp[i], today)

Step(c) ==
  /\ Run(c) \/ Handle(c)
  /\ Enter
  /\ Overtake(c)
  /\ Judge(c)
  /\ UNCHANGED today

HistoryNext == Tick \/ \E c \in Clients : Step(c)

HistorySpec == HistoryInit /\ [][HistoryNext]_history

-----------------------------------------------------------------------------
Age(i) == DayNumber(today) - DayNumber(born[i])

(* BeyondDeadLine finds the account of its user valid for a year after its *)
(* registration and no longer than a day more, which a 29th of February    *)
(* makes: EXP is a number that need not be a date, written by one client   *)
(* and read by another on a later day.                                     *)
DeadLineIsAYear ==
  [][\A c \in Clients :
       Judges(c) =>
         \E i \in Named(m_userName[c]) :
           /\ Age(i) <= 365 => m_strResult'[c] = "0"
           /\ Age(i) > 366 => m_strResult'[c] = "1"]_history

(* ResetPassWord replaces no password but the one its request names, or    *)
(* one that another client has put in its place since the comparison: no   *)
(* other handler running in between makes the comparison worthless.        *)
ReplacedUnlessOvertaken ==
  [][\A c \in Clients : \A i \in Ids :
       pc[c] = "change" /\ pc'[c] = "recycle" /\ user'[i] # user[i] =>
         user[i].pass = req[c].passWord \/ overtaken[c]]_history
=============================================================================
