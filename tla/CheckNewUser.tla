---------------------------- MODULE CheckNewUser ----------------------------
(***************************************************************************)
(* CheckNewUser.sh: mails the users that registered since it last ran and  *)
(* writes them to sysadmin.t_user_list, so that they are not mailed again. *)
(* cron starts it every few minutes and does not wait for the last run to  *)
(* end, so that several runs may be at work; the application registers     *)
(* users all the while.                                                    *)
(*                                                                         *)
(* The script asks the database three times: whether there is anything new *)
(* (line 24), for the body of the mail (27), and for the users to write    *)
(* down (31).  `local OUT=...` hides the status of mysql, so that a query  *)
(* that fails looks like an empty answer; set -e ends the script where     *)
(* sending the mail fails.                                                 *)
(***************************************************************************)
EXTENDS Naturals, FiniteSets

CONSTANTS
    User,        \* those who may register
    InMail,      \* users of whom no line of the mail has '|', 'email' or
                 \*   'Logging' in it: sql_query drops lines that do
    InList,      \* users whose address has none of these in it
    Quoted,      \* users whose address has an apostrophe, which ends the
                 \*   literal in the statement that should insert it
    Run,         \* the runs of the script that may be at work at once
    Faults,      \* what may go wrong: a subset of {"sql", "mail", "crash"}
    MaxFaults,   \* how often it does: a bound of the model
    MaxMails     \* mails to a user are counted up to this: a bound

ASSUME UserAssumption  == IsFiniteSet(User) /\ IsFiniteSet(Run)
ASSUME ShownAssumption == InMail \subseteq InList /\ InList \subseteq User
ASSUME QuotedAssumption == Quoted \subseteq User
ASSUME FaultAssumption == Faults \subseteq {"sql", "mail", "crash"} /\ MaxFaults \in Nat
ASSUME MailAssumption  == MaxMails \in Nat /\ MaxMails > Cardinality(Run) + MaxFaults

VARIABLES
    registered,  \* parauser.t_user
    listed,      \* sysadmin.t_user_list
    mails,       \* how many mails have named each user
    pc,          \* where each run is
    body,        \* the users in its mail, $(sql_query $STMT)
    nusr,        \* NUSR, the users it has still to insert
    faults,      \* how often something went wrong
    late,        \* history: users who registered between some run's second
                 \*   and third query
    blind        \* history: users who were new when the second query failed

history == <<late, blind>>
vars == <<registered, listed, mails, pc, body, nusr, faults, history>>

(* Defect: the list is not looked at.                                      *)
AllUsers == registered

(* left join ... where tul.email is NULL                                   *)
NewUsers == registered \ listed

MayFail(what) == what \in Faults /\ faults < MaxFaults
Fault(what)   == MayFail(what) /\ faults' = faults + 1

-----------------------------------------------------------------------------
(* The script.                                                             *)

Start(r) ==
    /\ pc[r] = "idle"
    /\ pc' = [pc EXCEPT ![r] = "check"]
    /\ UNCHANGED <<registered, listed, mails, body, nusr, faults, history>>

(* Defect: the answer is taken to begin with a header, which sql_query has *)
(* already dropped: a single new user looks like none.                     *)
CheckBelowHeader(r) ==
    /\ pc[r] = "check"
    /\ pc' = [pc EXCEPT ![r] = IF Cardinality(NewUsers \cap InMail) <= 1 THEN "idle" ELSE "compose"]
    /\ UNCHANGED <<registered, listed, mails, body, nusr, faults, history>>

(* STR1=$(sql_query $STMT); nothing more happens when it is empty.         *)
Check(r) ==
    /\ pc[r] = "check"
    /\ pc' = [pc EXCEPT ![r] = IF NewUsers \cap InMail = {} THEN "idle" ELSE "compose"]
    /\ UNCHANGED <<registered, listed, mails, body, nusr, faults, history>>

CheckFails(r) ==
    /\ pc[r] = "check"
    /\ Fault("sql")
    /\ pc' = [pc EXCEPT ![r] = "idle"]
    /\ UNCHANGED <<registered, listed, mails, body, nusr, history>>

(* The same query again, for the arguments of send_mail.                   *)
Compose(r) ==
    /\ pc[r] = "compose"
    /\ body' = [body EXCEPT ![r] = NewUsers \cap InMail]
    /\ pc' = [pc EXCEPT ![r] = "send"]
    /\ UNCHANGED <<registered, listed, mails, nusr, faults, history>>

ComposeFails(r) ==
    /\ pc[r] = "compose"
    /\ Fault("sql")
    /\ body' = [body EXCEPT ![r] = {}]
    /\ blind' = blind \cup NewUsers
    /\ pc' = [pc EXCEPT ![r] = "send"]
    /\ UNCHANGED <<registered, listed, mails, nusr, late>>

(* Defect: the mail is given up without an error.                          *)
SendNothing(r) ==
    /\ pc[r] = "send"
    /\ mails' = mails
    /\ pc' = [pc EXCEPT ![r] = "query"]
    /\ UNCHANGED <<registered, listed, body, nusr, faults, history>>

(* Also an empty body is sent.                                             *)
Send(r) ==
    /\ pc[r] = "send"
    /\ mails' = [u \in User |-> IF u \in body[r] /\ mails[u] < MaxMails
                                THEN mails[u] + 1 ELSE mails[u]]
    /\ pc' = [pc EXCEPT ![r] = "query"]
    /\ UNCHANGED <<registered, listed, body, nusr, faults, history>>

(* set -e                                                                  *)
SendFails(r) ==
    /\ pc[r] = "send"
    /\ Fault("mail")
    /\ pc' = [pc EXCEPT ![r] = "idle"]
    /\ body' = [body EXCEPT ![r] = {}]
    /\ UNCHANGED <<registered, listed, mails, nusr, history>>

(* NUSR=`echo $(sql_query $STMT2)`                                         *)
Query(r) ==
    /\ pc[r] = "query"
    /\ nusr' = [nusr EXCEPT ![r] = NewUsers \cap InList]
    /\ body' = [body EXCEPT ![r] = {}]
    /\ pc' = [pc EXCEPT ![r] = "insert"]
    /\ UNCHANGED <<registered, listed, mails, faults, history>>

QueryFails(r) ==
    /\ pc[r] = "query"
    /\ Fault("sql")
    /\ body' = [body EXCEPT ![r] = {}]
    /\ pc' = [pc EXCEPT ![r] = "idle"]
    /\ UNCHANGED <<registered, listed, mails, nusr, history>>

(* One insert per user, made of the address as it is: that of an address   *)
(* with an apostrophe is no statement, in every run anew.  The status is   *)
(* not looked at either.                                                   *)
Insert(r, u) ==
    /\ pc[r] = "insert"
    /\ u \in nusr[r]
    /\ \/ u \notin Quoted /\ listed' = listed \cup {u} /\ UNCHANGED faults
       \/ u \in Quoted /\ UNCHANGED <<listed, faults>>
       \/ u \notin Quoted /\ Fault("sql") /\ UNCHANGED listed
    /\ nusr' = [nusr EXCEPT ![r] = @ \ {u}]
    /\ UNCHANGED <<registered, mails, pc, body, history>>

(* Defect: the loop is left after the first user.                          *)
EndEarly(r) ==
    /\ pc[r] = "insert"
    /\ pc' = [pc EXCEPT ![r] = "idle"]
    /\ UNCHANGED <<registered, listed, mails, body, nusr, faults, history>>

End(r) ==
    /\ pc[r] = "insert"
    /\ nusr[r] = {}
    /\ pc' = [pc EXCEPT ![r] = "idle"]
    /\ UNCHANGED <<registered, listed, mails, body, nusr, faults, history>>

(* The run is killed, the next one starts from the beginning.              *)
Crash(r) ==
    /\ pc[r] # "idle"
    /\ Fault("crash")
    /\ pc' = [pc EXCEPT ![r] = "idle"]
    /\ body' = [body EXCEPT ![r] = {}]
    /\ nusr' = [nusr EXCEPT ![r] = {}]
    /\ UNCHANGED <<registered, listed, mails, history>>

-----------------------------------------------------------------------------
(* The application.                                                        *)

InTheWindow == \E r \in Run : pc[r] \in {"send", "query"}

Register(u) ==
    /\ u \notin registered
    /\ registered' = registered \cup {u}
    /\ late' = IF InTheWindow THEN late \cup {u} ELSE late
    /\ UNCHANGED <<listed, mails, pc, body, nusr, faults, blind>>

-----------------------------------------------------------------------------
Init ==
    /\ registered = {}
    /\ listed = {}
    /\ mails = [u \in User |-> 0]
    /\ pc = [r \in Run |-> "idle"]
    /\ body = [r \in Run |-> {}]
    /\ nusr = [r \in Run |-> {}]
    /\ faults = 0
    /\ late = {}
    /\ blind = {}

Proceed(r) ==
    \/ Start(r) \/ Check(r) \/ Compose(r) \/ Send(r) \/ Query(r)
    \/ \E u \in User : Insert(r, u)
    \/ End(r)

Fail(r) == CheckFails(r) \/ ComposeFails(r) \/ SendFails(r) \/ QueryFails(r) \/ Crash(r)

Next ==
    \/ \E r \in Run : Proceed(r) \/ Fail(r)
    \/ \E u \in User : Register(u)

(* cron starts the script again and again, and what has been started goes  *)
(* on unless it is killed.  Nobody need register.                          *)
Fairness == \A r \in Run : WF_vars(Proceed(r))

Spec == Init /\ [][Next]_vars /\ Fairness

-----------------------------------------------------------------------------
(* Properties.                                                             *)

(* The types; and the lists a run works on exist only while it does.       *)
TypeOK ==
    /\ registered \subseteq User
    /\ listed \subseteq registered
    /\ mails \in [User -> Nat]
    /\ pc \in [Run -> {"idle", "check", "compose", "send", "query", "insert"}]
    /\ body \in [Run -> SUBSET InMail]
    /\ nusr \in [Run -> SUBSET InList]
    /\ faults \in 0 .. MaxFaults
    /\ late \subseteq registered
    /\ blind \subseteq registered
    /\ \A r \in Run : /\ body[r] # {} => pc[r] \in {"send", "query"}
                      /\ nusr[r] # {} => pc[r] = "insert"
                      /\ body[r] \cup nusr[r] \subseteq registered

(* Whoever is on the list (and will never be mailed again) has been mailed,*)
(* unless the filter hid them, they registered between the query for the   *)
(* mail and the query for the list (lines 27 and 31), or the query for the *)
(* mail failed: however runs overlap, fail and are killed.                 *)
OnlyLateUsersAreMissed ==
    \A u \in listed \cap InMail : mails[u] > 0 \/ u \in late \/ u \in blind

(* A run that is killed or fails between the mail and the inserts (27, 33) *)
(* mails its users again, once each time; and runs that overlap mail them  *)
(* once each.  Nobody whose address the insert can take is mailed for      *)
(* ever; the others are, by every run.                                     *)
MailsAreBounded ==
    \A u \in User \ Quoted : mails[u] <= Cardinality(Run) + faults

(* Every registered user whom the mail can show and the insert can take is *)
(* in the end on the list, also when others are new for ever (32, 33).     *)
EveryUserIsListed ==
    \A u \in InMail \ Quoted : u \in registered ~> u \in listed
=============================================================================
