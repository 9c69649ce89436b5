-------------------------- MODULE CheckNewUserProofs --------------------------
(***************************************************************************)
(* Theorems about CheckNewUser, for every set of users and runs, whatever  *)
(* may go wrong and however often.                                         *)
(***************************************************************************)
EXTENDS CheckNewUser, FiniteSetTheorems, TLAPS

(* Type correctness; the lists a run works on exist only while it does.    *)
THEOREM NewUserTypes == Spec => []TypeOK
<1>1. Init => TypeOK
  <2> SUFFICES ASSUME Init PROVE TypeOK
    OBVIOUS
  <2>1. /\ mails \in [User -> Nat]
        /\ pc \in [Run -> {"idle", "check", "compose", "send", "query", "insert"}]
    BY DEF Init
  <2>2. body \in [Run -> SUBSET InMail] /\ nusr \in [Run -> SUBSET InList]
    BY DEF Init
  <2>3. faults \in 0 .. MaxFaults
    BY FaultAssumption DEF Init
  <2> QED
    BY <2>3 DEF Init, TypeOK
<1>2. TypeOK /\ [Next]_vars => TypeOK'
  <2> SUFFICES ASSUME TypeOK, [Next]_vars PROVE TypeOK'
    OBVIOUS
  <2> USE FaultAssumption
  <2>1. ASSUME NEW r \in Run, Start(r) PROVE TypeOK'
    BY <2>1 DEF Start, TypeOK, history
  <2>2. ASSUME NEW r \in Run, Check(r) PROVE TypeOK'
    BY <2>2 DEF Check, TypeOK, history
  <2>3. ASSUME NEW r \in Run, CheckFails(r) PROVE TypeOK'
    BY <2>3 DEF CheckFails, TypeOK, history, Fault, MayFail
  <2>4. ASSUME NEW r \in Run, Compose(r) PROVE TypeOK'
    BY <2>4 DEF Compose, TypeOK, history, NewUsers
  <2>5. ASSUME NEW r \in Run, ComposeFails(r) PROVE TypeOK'
    BY <2>5 DEF ComposeFails, TypeOK, Fault, MayFail, NewUsers
  <2>6. ASSUME NEW r \in Run, Send(r) PROVE TypeOK'
    BY <2>6 DEF Send, TypeOK, history
  <2>7. ASSUME NEW r \in Run, SendFails(r) PROVE TypeOK'
    BY <2>7 DEF SendFails, TypeOK, history, Fault, MayFail
  <2>8. ASSUME NEW r \in Run, Query(r) PROVE TypeOK'
    BY <2>8 DEF Query, TypeOK, history, NewUsers
  <2>9. ASSUME NEW r \in Run, QueryFails(r) PROVE TypeOK'
    BY <2>9 DEF QueryFails, TypeOK, history, Fault, MayFail
  <2>10. ASSUME NEW r \in Run, NEW u \in User, Insert(r, u) PROVE TypeOK'
    BY <2>10 DEF Insert, TypeOK, history, Fault, MayFail
  <2>11. ASSUME NEW r \in Run, End(r) PROVE TypeOK'
    BY <2>11 DEF End, TypeOK, history
  <2>12. ASSUME NEW r \in Run, Crash(r) PROVE TypeOK'
    BY <2>12 DEF Crash, TypeOK, history, Fault, MayFail
  <2>13. ASSUME NEW u \in User, Register(u) PROVE TypeOK'
    BY <2>13 DEF Register, TypeOK
  <2>14. CASE UNCHANGED vars
    BY <2>14 DEF TypeOK, history, vars
  <2> QED
    BY <2>1, <2>2, <2>3, <2>4, <2>5, <2>6, <2>7, <2>8, <2>9, <2>10, <2>11, <2>12, <2>13, <2>14
    DEF Next, Proceed, Fail
<1> QED
  BY <1>1, <1>2, PTL DEF Spec

-----------------------------------------------------------------------------
(* Nobody is passed over in silence: who is new is in the body of a run    *)
(* that is about to send, has been mailed when it asks for its list, and   *)
(* has been mailed when it inserts; or there is an excuse.                 *)
Mailed(u) == mails[u] > 0 \/ u \in late \/ u \in blind

MissedInv ==
    /\ \A r \in Run, u \in NewUsers \cap InMail :
        /\ pc[r] = "send"  => u \in body[r] \cup late \cup blind
        /\ pc[r] = "query" => Mailed(u)
    /\ \A r \in Run : \A u \in nusr[r] \cap InMail : Mailed(u)
    /\ OnlyLateUsersAreMissed

LEMMA RunsCounted == Cardinality(Run) \in Nat
BY UserAssumption, FS_CardinalityType

(* The two queries of a run, for the mail and for the list, may see        *)
(* different users: exactly those who registered in between, and those for *)
(* whom the first one failed, are listed without a mail.                   *)
THEOREM NobodyIsMissedSilently == Spec => []OnlyLateUsersAreMissed
<1>1. Init => MissedInv
  BY DEF Init, MissedInv, OnlyLateUsersAreMissed
<1>2. TypeOK /\ MissedInv /\ [Next]_vars => MissedInv'
  <2> SUFFICES ASSUME TypeOK, MissedInv, [Next]_vars PROVE MissedInv'
    OBVIOUS
  <2>1. ASSUME NEW r \in Run, Start(r) PROVE MissedInv'
    BY <2>1
    DEF Start, MissedInv, Mailed, OnlyLateUsersAreMissed, history, NewUsers
  <2>2. ASSUME NEW r \in Run, Check(r) PROVE MissedInv'
    BY <2>2
    DEF Check, MissedInv, Mailed, OnlyLateUsersAreMissed, history, NewUsers
  <2>3. ASSUME NEW r \in Run, CheckFails(r) PROVE MissedInv'
    BY <2>3
    DEF CheckFails, MissedInv, Mailed, OnlyLateUsersAreMissed, history,
        NewUsers
  <2>4. ASSUME NEW r \in Run, Compose(r) PROVE MissedInv'
    BY <2>4
    DEF Compose, MissedInv, Mailed, OnlyLateUsersAreMissed, TypeOK, history,
        NewUsers
  <2>5. ASSUME NEW r \in Run, ComposeFails(r) PROVE MissedInv'
    BY <2>5
    DEF ComposeFails, MissedInv, Mailed, OnlyLateUsersAreMissed, NewUsers
  <2>6. ASSUME NEW r \in Run, Send(r) PROVE MissedInv'
    <3>1. \A u \in User : mails[u] > 0 \/ u \in body[r] => mails'[u] > 0
      <4>1. MaxMails \in Nat /\ MaxMails > 0
        BY MailAssumption, RunsCounted, FaultAssumption
      <4>2. \A u \in User : mails[u] \in Nat
        BY DEF TypeOK
      <4>3. \A u \in User : mails'[u] = IF u \in body[r] /\ mails[u] < MaxMails
                                      THEN mails[u] + 1 ELSE mails[u]
        BY <2>6 DEF Send
      <4> QED
        BY <4>1, <4>2, <4>3
    <3>2. UNCHANGED <<listed, registered, body, nusr, late, blind>>
      BY <2>6 DEF Send, history
    <3>3. InMail \subseteq User /\ listed \subseteq User /\ NewUsers' = NewUsers
      BY <3>2, ShownAssumption DEF TypeOK, NewUsers
    <3>4. \A q \in Run : /\ pc'[q] = "send" => pc[q] = "send"
                         /\ pc'[q] = "query" => pc[q] = "query" \/ q = r
      BY <2>6 DEF Send, TypeOK
    <3>5. \A u \in User : Mailed(u) => Mailed(u)'
      BY <3>1, <3>2 DEF Mailed
    <3>6. \A u \in NewUsers \cap InMail : Mailed(u)' \/ pc[r] # "send"
      BY <3>1, <3>2, <3>3 DEF MissedInv, Mailed
    <3>7. pc[r] = "send"
      BY <2>6 DEF Send
    <3>8. OnlyLateUsersAreMissed'
      BY <3>2, <3>3, <3>5 DEF MissedInv, OnlyLateUsersAreMissed, Mailed
    <3> QED
      BY <3>2, <3>3, <3>4, <3>5, <3>6, <3>7, <3>8 DEF MissedInv
  <2>7. ASSUME NEW r \in Run, SendFails(r) PROVE MissedInv'
    BY <2>7
    DEF SendFails, MissedInv, Mailed, OnlyLateUsersAreMissed, TypeOK, history,
        NewUsers
  <2>8. ASSUME NEW r \in Run, Query(r) PROVE MissedInv'
    BY <2>8
    DEF Query, MissedInv, Mailed, OnlyLateUsersAreMissed, history, NewUsers
  <2>9. ASSUME NEW r \in Run, QueryFails(r) PROVE MissedInv'
    BY <2>9
    DEF QueryFails, MissedInv, Mailed, OnlyLateUsersAreMissed, history,
        NewUsers
  <2>10. ASSUME NEW r \in Run, NEW u \in User, Insert(r, u) PROVE MissedInv'
    BY <2>10
    DEF Insert, MissedInv, Mailed, OnlyLateUsersAreMissed, history, NewUsers
  <2>11. ASSUME NEW r \in Run, End(r) PROVE MissedInv'
    BY <2>11
    DEF End, MissedInv, Mailed, OnlyLateUsersAreMissed, history, NewUsers
  <2>12. ASSUME NEW r \in Run, Crash(r) PROVE MissedInv'
    BY <2>12
    DEF Crash, MissedInv, Mailed, OnlyLateUsersAreMissed, TypeOK, history,
        NewUsers
  <2>13. ASSUME NEW u \in User, Register(u) PROVE MissedInv'
    BY <2>13
    DEF Register, MissedInv, Mailed, OnlyLateUsersAreMissed, NewUsers,
        InTheWindow
  <2>14. CASE UNCHANGED vars
    BY <2>14
    DEF MissedInv, Mailed, OnlyLateUsersAreMissed, history, NewUsers, vars
  <2> QED
    BY <2>1, <2>2, <2>3, <2>4, <2>5, <2>6, <2>7, <2>8, <2>9, <2>10, <2>11, <2>12, <2>13, <2>14
    DEF Next, Proceed, Fail
<1>3. MissedInv => OnlyLateUsersAreMissed
  BY DEF MissedInv
<1> QED
  BY <1>1, <1>2, <1>3, NewUserTypes, PTL DEF Spec

-----------------------------------------------------------------------------
(* The bound on the mails.  A run can still mail u when u is not listed,   *)
(* unless the run has mailed u and has yet to write u down; and when u is  *)
(* in a body that is about to be sent.                                     *)
CanMail(r, u) ==
    \/ /\ u \notin listed
       /\ ~(pc[r] = "query" /\ u \in body[r])
       /\ ~(pc[r] = "insert" /\ u \in nusr[r])
    \/ pc[r] = "send" /\ u \in body[r]

Mailers(u) == {r \in Run : CanMail(r, u)}

(* A mail is paid for by a run that cannot mail any more, and a run only   *)
(* becomes able to mail again by a fault.                                  *)
BoundInv ==
    \A u \in User \ Quoted :
        mails[u] + Cardinality(Mailers(u)) <= Cardinality(Run) + faults

(* What a step may do to the set of those who can mail.                    *)
LEMMA FewerMembers ==
    ASSUME NEW A, NEW B, IsFiniteSet(A), B \subseteq A
    PROVE  IsFiniteSet(B) /\ Cardinality(B) <= Cardinality(A) /\ Cardinality(B) \in Nat
           /\ Cardinality(A) \in Nat
  BY FS_Subset, FS_CardinalityType

(* Removing a member makes a finite set smaller by one.                    *)
LEMMA OneMemberLess ==
    ASSUME NEW A, NEW B, NEW x \in A, IsFiniteSet(A), B \subseteq A \ {x}
    PROVE  Cardinality(B) + 1 <= Cardinality(A) /\ Cardinality(B) \in Nat
           /\ Cardinality(A) \in Nat
  <1>1. IsFiniteSet(A \ {x}) /\ Cardinality(A \ {x}) = Cardinality(A) - 1
    BY FS_RemoveElement
  <1>2. Cardinality(B) <= Cardinality(A \ {x}) /\ Cardinality(B) \in Nat
    BY FewerMembers
  <1> QED
    BY <1>1, <1>2, FS_CardinalityType

(* Adding a member makes a finite set larger by at most one.               *)
LEMMA OneMemberMore ==
    ASSUME NEW A, NEW B, NEW x, IsFiniteSet(A), B \subseteq A \cup {x}
    PROVE  Cardinality(B) <= Cardinality(A) + 1 /\ Cardinality(B) \in Nat
           /\ Cardinality(A) \in Nat
  <1>1. /\ IsFiniteSet(A \cup {x}) /\ Cardinality(A) \in Nat
        /\ Cardinality(A \cup {x}) <= Cardinality(A) + 1
    <2>1. /\ IsFiniteSet(A \cup {x})
          /\ Cardinality(A \cup {x}) \in {Cardinality(A), Cardinality(A) + 1}
      BY FS_AddElement
    <2>2. Cardinality(A) \in Nat
      BY FS_CardinalityType
    <2> QED
      BY <2>1, <2>2
  <1>2. /\ Cardinality(B) <= Cardinality(A \cup {x}) /\ Cardinality(B) \in Nat
        /\ Cardinality(A \cup {x}) \in Nat
    BY <1>1, FewerMembers
  <1> QED
    BY <1>1, <1>2

(* The runs that can still mail u are finitely many.                       *)
LEMMA MailersFinite ==
    ASSUME NEW u
    PROVE  IsFiniteSet(Mailers(u)) /\ Cardinality(Run) \in Nat
  BY UserAssumption, FS_Subset, FS_CardinalityType DEF Mailers

(* The three ways in which a step keeps the bound for a user.              *)
LEMMA BoundKept ==
    ASSUME TypeOK, TypeOK', NEW u \in User, NEW r \in Run,
           mails[u] + Cardinality(Mailers(u)) <= Cardinality(Run) + faults,
           \/ Mailers(u)' \subseteq Mailers(u) /\ mails'[u] = mails[u] /\ faults' >= faults
           \/ /\ r \in Mailers(u) /\ Mailers(u)' \subseteq Mailers(u) \ {r}
              /\ mails'[u] \in {mails[u], mails[u] + 1} /\ faults' = faults
           \/ /\ Mailers(u)' \subseteq Mailers(u) \cup {r}
              /\ mails'[u] = mails[u] /\ faults' = faults + 1
    PROVE  mails'[u] + Cardinality(Mailers(u)') <= Cardinality(Run) + faults'
  <1> DEFINE A == Mailers(u)
             B == Mailers(u)'
  <1>1. /\ IsFiniteSet(A) /\ Cardinality(Run) \in Nat
        /\ faults \in Nat /\ faults' \in Nat /\ mails[u] \in Nat /\ mails'[u] \in Nat
    BY MailersFinite DEF TypeOK
  <1> HIDE DEF A, B
  <1>2. CASE B \subseteq A /\ mails'[u] = mails[u] /\ faults' >= faults
    <2>1. /\ Cardinality(B) <= Cardinality(A)
          /\ Cardinality(B) \in Nat /\ Cardinality(A) \in Nat
      BY <1>1, <1>2, FewerMembers
    <2> QED
      BY <1>1, <1>2, <2>1 DEF A, B
  <1>3. CASE /\ r \in A /\ B \subseteq A \ {r}
            /\ mails'[u] \in {mails[u], mails[u] + 1} /\ faults' = faults
    <2>1. /\ Cardinality(B) + 1 <= Cardinality(A)
          /\ Cardinality(B) \in Nat /\ Cardinality(A) \in Nat
      BY <1>1, <1>3, OneMemberLess
    <2> QED
      BY <1>1, <1>3, <2>1 DEF A, B
  <1>4. CASE B \subseteq A \cup {r} /\ mails'[u] = mails[u] /\ faults' = faults + 1
    <2>1. /\ Cardinality(B) <= Cardinality(A) + 1
          /\ Cardinality(B) \in Nat /\ Cardinality(A) \in Nat
      BY <1>1, <1>4, OneMemberMore
    <2> QED
      BY <1>1, <1>4, <2>1 DEF A, B
  <1> QED
    BY <1>2, <1>3, <1>4 DEF A, B

(* However many runs overlap, fail and are killed, nobody is mailed more   *)
(* often than there are runs at once and faults together, unless the       *)
(* insert cannot take the address.                                         *)
THEOREM MailsStayBounded == Spec => []MailsAreBounded
<1> DEFINE Kept(u, r) ==
        \/ Mailers(u)' \subseteq Mailers(u) /\ mails'[u] = mails[u] /\ faults' >= faults
        \/ /\ r \in Mailers(u) /\ Mailers(u)' \subseteq Mailers(u) \ {r}
           /\ mails'[u] \in {mails[u], mails[u] + 1} /\ faults' = faults
        \/ /\ Mailers(u)' \subseteq Mailers(u) \cup {r}
           /\ mails'[u] = mails[u] /\ faults' = faults + 1
<1>1. Init => BoundInv
  <2> SUFFICES ASSUME Init, NEW u \in User \ Quoted
               PROVE  mails[u] + Cardinality(Mailers(u)) <= Cardinality(Run) + faults
    BY DEF BoundInv
  <2>1. Cardinality(Mailers(u)) <= Cardinality(Run) /\ Cardinality(Mailers(u)) \in Nat
    BY UserAssumption, FewerMembers DEF Mailers
  <2> QED
    BY <2>1, MailersFinite DEF Init
<1>2. TypeOK /\ TypeOK' /\ BoundInv /\ [Next]_vars => BoundInv'
  <2> SUFFICES ASSUME TypeOK, TypeOK', BoundInv, [Next]_vars, NEW v \in User \ Quoted
               PROVE  (mails'[v] + Cardinality(Mailers(v)') <= Cardinality(Run) + faults')
    BY DEF BoundInv
  <2> DEFINE Goal == mails'[v] + Cardinality(Mailers(v)') <= Cardinality(Run) + faults'
  <2>a. ASSUME NEW r \in Run, Kept(v, r) PROVE Goal
    BY <2>a, BoundKept DEF BoundInv
  <2>b. faults \in Nat
    BY DEF TypeOK
  <2>1. ASSUME NEW r \in Run, Start(r) PROVE Goal
    <3>1. Kept(v, r)
      BY <2>1, <2>b DEF Start, Mailers, CanMail
    <3> QED
      BY <3>1, <2>a
  <2>2. ASSUME NEW r \in Run, Check(r) PROVE Goal
    <3>1. Kept(v, r)
      BY <2>2, <2>b DEF Check, Mailers, CanMail
    <3> QED
      BY <3>1, <2>a
  <2>3. ASSUME NEW r \in Run, CheckFails(r) PROVE Goal
    <3>1. Kept(v, r)
      BY <2>3 DEF CheckFails, Mailers, CanMail, Fault
    <3> QED
      BY <3>1, <2>a
  <2>4. ASSUME NEW r \in Run, Compose(r) PROVE Goal
    <3>1. Kept(v, r)
      BY <2>4 DEF Compose, Mailers, CanMail, TypeOK, NewUsers
    <3> QED
      BY <3>1, <2>a
  <2>5. ASSUME NEW r \in Run, ComposeFails(r) PROVE Goal
    <3>1. Kept(v, r)
      BY <2>5 DEF ComposeFails, Mailers, CanMail, Fault
    <3> QED
      BY <3>1, <2>a
  <2>6. ASSUME NEW r \in Run, Send(r) PROVE Goal
    <3>1. Kept(v, r)
      BY <2>6 DEF Send, Mailers, CanMail, TypeOK
    <3> QED
      BY <3>1, <2>a
  <2>7. ASSUME NEW r \in Run, SendFails(r) PROVE Goal
    <3>1. Kept(v, r)
      BY <2>7 DEF SendFails, Mailers, CanMail, Fault
    <3> QED
      BY <3>1, <2>a
  <2>8. ASSUME NEW r \in Run, Query(r) PROVE Goal
    <3>1. Kept(v, r)
      BY <2>8, ShownAssumption DEF Query, Mailers, CanMail, TypeOK, NewUsers
    <3> QED
      BY <3>1, <2>a
  <2>9. ASSUME NEW r \in Run, QueryFails(r) PROVE Goal
    <3>1. Kept(v, r)
      BY <2>9 DEF QueryFails, Mailers, CanMail, Fault
    <3> QED
      BY <3>1, <2>a
  <2>10. ASSUME NEW r \in Run, NEW u \in User, Insert(r, u) PROVE Goal
    <3>1. Kept(v, r)
      BY <2>10, <2>b DEF Insert, Mailers, CanMail, Fault
    <3> QED
      BY <3>1, <2>a
  <2>11. ASSUME NEW r \in Run, End(r) PROVE Goal
    <3>1. Kept(v, r)
      BY <2>11, <2>b DEF End, Mailers, CanMail
    <3> QED
      BY <3>1, <2>a
  <2>12. ASSUME NEW r \in Run, Crash(r) PROVE Goal
    <3>1. Kept(v, r)
      BY <2>12 DEF Crash, Mailers, CanMail, Fault
    <3> QED
      BY <3>1, <2>a
  <2>13. ASSUME NEW u \in User, Register(u) PROVE Goal
    <3>1. Mailers(v)' = Mailers(v) /\ mails'[v] = mails[v] /\ faults' = faults
      BY <2>13 DEF Register, Mailers, CanMail
    <3> QED
      BY <3>1 DEF BoundInv
  <2>14. CASE UNCHANGED vars
    <3>1. Mailers(v)' = Mailers(v) /\ mails'[v] = mails[v] /\ faults' = faults
      BY <2>14 DEF Mailers, CanMail, vars
    <3> QED
      BY <3>1 DEF BoundInv
  <2> QED
    BY <2>1, <2>2, <2>3, <2>4, <2>5, <2>6, <2>7, <2>8, <2>9, <2>10, <2>11, <2>12, <2>13, <2>14
    DEF Next, Proceed, Fail
<1>3. TypeOK /\ BoundInv => MailsAreBounded
  <2> SUFFICES ASSUME TypeOK, BoundInv, NEW u \in User \ Quoted
               PROVE  mails[u] <= Cardinality(Run) + faults
    BY DEF MailsAreBounded
  <2>1. Cardinality(Mailers(u)) \in Nat /\ Cardinality(Run) \in Nat
    BY MailersFinite, FS_CardinalityType
  <2> QED
    BY <2>1 DEF BoundInv, TypeOK
<1> QED
  BY <1>1, <1>2, <1>3, NewUserTypes, PTL DEF Spec
=============================================================================
