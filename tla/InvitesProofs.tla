--------------------------- MODULE InvitesProofs ---------------------------
(***************************************************************************)
(* Theorems about Invites, for any users, invites, limits, requests and    *)
(* pages.  InviteInv is inductive; the safety properties the run checks    *)
(* follow from it.                                                         *)
(***************************************************************************)
EXTENDS Invites, FiniteSetTheorems, TLAPS

Typed ==
    /\ guild \in {"alive", "deleting", "kept", "gone"}
    /\ members \subseteq Users
    /\ invite \in [Codes -> Invite]
    /\ lock \in [Codes -> Joins \cup Revokes \cup {Deletion, None}]
    /\ join \in [Joins -> Join]
    /\ revoke \in [Revokes -> Revoke]
    /\ tab \in [Tabs -> Page]

(* An invite that was issued is there until the guild is gone, and one that *)
(* cannot be joined by any more stays so.                                   *)
Issued(i) == i \in Codes /\ (invite[i].there \/ guild = "gone")

Dead(i) == guild = "gone" \/ invite[i].disabled \/ invite[i].expired \/ Full(i)

GoneIsEmpty ==
    guild = "gone" => members = {} /\ \A i \in Codes : ~invite[i].there /\ invite[i].used = {}

(* A join that waits for its invite's row saw at worst an older state; one  *)
(* that holds the row may rely on what it found.                            *)
Waits(j) ==
    /\ join[j].used => join[j].member
    /\ join[j].member => join[j].by \in members \/ guild = "gone"
    /\ join[j].expired => Dead(join[j].code)

Holds(j) ==
    LET i == join[j].code IN
    /\ invite[i].there /\ ~invite[i].disabled /\ invite[i].uses < MaxUses[i]
    /\ ~join[j].used

JoinsOK ==
    \A j \in Joins :
        /\ join[j].at \notin {"unused", "over"} => join[j].by \in Users /\ Issued(join[j].code)
        /\ join[j].at = "locking" => Waits(j)
        /\ Holding(j) => Holds(j)

(* Only one insert of a user is not committed, and none of a member.        *)
InsertsOK ==
    \A j \in Joins :
        /\ join[j].at = "inserted" =>
              /\ join[j].by \notin members
              /\ \A k \in Joins : join[k].at = "inserted" /\ join[k].by = join[j].by => k = j
        /\ join[j].at = "skipped" => join[j].by \in members

RevokesOK ==
    \A r \in Revokes :
        /\ revoke[r].at \in {"locking", "holding", "checking"} => Issued(revoke[r].code)
        /\ revoke[r].at = "holding" =>
              invite[revoke[r].code].there /\ ~invite[revoke[r].code].disabled
        /\ revoke[r].at = "checking" => Dead(revoke[r].code)
        /\ revoke[r].at # "unexplained"

OneUse ==
    \A u \in Users :
        /\ u \notin members => \A i \in Codes : u \notin invite[i].used
        /\ u \in members =>
              \E i \in Codes : \A k \in Codes : u \in invite[k].used <=> k = i

(* A request that still has a page is the page's latest and only one.       *)
TabsOK ==
    \A j \in Joins : LET t == join[j].tab IN
        t # None =>
            /\ tab[t].at = "joining" /\ tab[t].by = join[j].by /\ tab[t].code = join[j].code
            /\ \A k \in Joins : join[k].tab = t => k = j

PageOK(t) ==
    /\ tab[t].at # "away" => tab[t].by \in Users /\ tab[t].code \in Codes
    /\ tab[t].content = "valid" => Issued(tab[t].code)
    /\ tab[t].at = "joining" => tab[t].content = "valid" /\ ~tab[t].refused
    /\ tab[t].at = "guild" => tab[t].by \in members \/ guild = "gone"
    /\ tab[t].refused => tab[t].code \in Codes /\ Dead(tab[t].code)
    /\ tab[t].refused /\ tab[t].at = "shown" => tab[t].content # "valid"

PagesOK == \A t \in Tabs : PageOK(t)

LocksInv == Typed /\ LocksAreHeld

LedgerInv ==
    LocksInv /\ GoneIsEmpty /\ JoinsOK /\ InsertsOK /\ RevokesOK /\ LedgersAgree /\ OneUse

InviteInv == LedgerInv /\ TabsOK /\ PagesOK

-----------------------------------------------------------------------------
(* What a step may do to a request and its page.                           *)

Answers == {"guild", "refused", "login", "notice"}

LEMMA ToldPage ==
    ASSUME NEW page \in Page, NEW answer \in Answers
    PROVE  /\ Told(page, answer) \in Page
           /\ Told(page, answer).by = page.by /\ Told(page, answer).code = page.code
           /\ Told(page, answer).content = page.content
           /\ Told(page, answer).at =
                  IF answer = "guild" THEN "guild"
                  ELSE IF answer = "notice" THEN "shown" ELSE "loading"
           /\ Told(page, answer).refused = (page.refused \/ answer = "refused")
  <1>1. CASE answer = "guild"
    BY <1>1 DEF Told, Page
  <1>2. CASE answer = "refused"
    BY <1>2 DEF Told, Page
  <1>3. CASE answer = "login"
    BY <1>3 DEF Told, Page
  <1>4. CASE answer = "notice"
    BY <1>4 DEF Told, Page
  <1> QED BY <1>1, <1>2, <1>3, <1>4 DEF Answers

LEMMA NoJoinType ==
    LET over == [NoJoin EXCEPT !.at = "over"] IN
    /\ NoJoin \in Join /\ over \in Join
    /\ over.at = "over" /\ over.tab = None
  BY DEF NoJoin, Join

LEMMA EndEffect ==
    ASSUME Typed, NEW j \in Joins, NEW answer \in Answers, End(j, answer)
    PROVE  /\ join' \in [Joins -> Join] /\ tab' \in [Tabs -> Page]
           /\ join'[j].at = "over" /\ join'[j].tab = None
           /\ \A k \in Joins : k # j => join'[k] = join[k]
           /\ \A t \in Tabs : t # join[j].tab => tab'[t] = tab[t]
           /\ \A t \in Tabs : t = join[j].tab => tab'[t] = Told(tab[t], answer)
  <1>1. /\ join' \in [Joins -> Join] /\ join'[j].at = "over" /\ join'[j].tab = None
        /\ \A k \in Joins : k # j => join'[k] = join[k]
    BY NoJoinType DEF End, Typed
  <1>2. CASE join[j].tab = None
    <2>1. None \notin Tabs
      BY InviteAssumption
    <2> QED BY <1>1, <1>2, <2>1 DEF End, Typed
  <1>3. CASE join[j].tab # None
    <2>1. join[j].tab \in Tabs
      BY <1>3 DEF Typed, Join
    <2>2. tab' = [tab EXCEPT ![join[j].tab] = Told(tab[join[j].tab], answer)]
      BY <1>3 DEF End
    <2>3. Told(tab[join[j].tab], answer) \in Page
      BY <2>1, ToldPage DEF Typed
    <2> QED BY <1>1, <2>1, <2>2, <2>3 DEF Typed
  <1> QED BY <1>2, <1>3

(* A join is answered and changes nothing; the answer is true.              *)
Ends(j) ==
    /\ join[j].at \notin {"unused", "over"}
    /\ \E answer \in Answers :
          /\ End(j, answer)
          /\ answer = "guild" => join[j].by \in members \/ guild = "gone"
          /\ answer = "refused" => Dead(join[j].code)
    /\ lock' = IF Holding(j) THEN Release(join[j].code) ELSE lock
    /\ UNCHANGED <<guild, members, invite, revoke>>

Starts(j) ==
    /\ join[j].at = "sent" /\ invite[join[j].code].there
    /\ join' = [join EXCEPT ![j] =
           [@ EXCEPT !.at = "locking", !.member = join[j].by \in members,
                     !.used = join[j].by \in invite[join[j].code].used,
                     !.expired = invite[join[j].code].expired]]
    /\ UNCHANGED <<guild, members, invite, lock, revoke, tab>>

Takes(j) ==
    /\ join[j].at = "locking" /\ Free(join[j].code)
    /\ LET i == join[j].code IN
       /\ invite[i].there /\ ~join[j].member /\ ~invite[i].disabled /\ ~Full(i)
       /\ lock' = [lock EXCEPT ![i] = j]
    /\ join' = [join EXCEPT ![j].at = "joinable"]
    /\ UNCHANGED <<guild, members, invite, revoke, tab>>

Admits(j) ==
    /\ join[j].at = "inserted" /\ guild # "deleting"
    /\ members' = members \cup {join[j].by}
    /\ invite' = Used(join[j].code, j)
    /\ lock' = Release(join[j].code)
    /\ End(j, "guild")
    /\ UNCHANGED <<guild, revoke>>

LEMMA JoinCases ==
    ASSUME LedgerInv, NEW j \in Joins,
           Refuse(j) \/ JoinStep(j) \/ JoinErrs(j)
    PROVE  Ends(j) \/ Starts(j) \/ Takes(j) \/ InsertMember(j) \/ Admits(j)
  <1>1. CASE Refuse(j)
    <2>1. PICK answer \in {"login", "notice"} : End(j, answer)
      BY <1>1 DEF Refuse
    <2> QED BY <1>1, <2>1 DEF Refuse, Ends, Answers, Holding
  <1>2. CASE Begin(j)
    <2>1. CASE invite[join[j].code].there
      BY <1>2, <2>1 DEF Begin, Starts, LedgerInv, LocksInv, Typed, Join
    <2>2. CASE ~invite[join[j].code].there
      <3>1. End(j, "refused") /\ join[j].at = "sent"
        BY <1>2, <2>2 DEF Begin
      <3>2. guild = "gone"
        BY <2>2, <3>1 DEF LedgerInv, JoinsOK, Issued
      <3> QED BY <1>2, <3>1, <3>2 DEF Begin, Ends, Answers, Holding, Dead
    <2> QED BY <2>1, <2>2
  <1>3. CASE Lock(j)
    <2> DEFINE i == join[j].code
    <2>1. join[j].at = "locking" /\ Waits(j) /\ Issued(i)
      BY <1>3 DEF Lock, LedgerInv, JoinsOK
    <2>2. CASE ~invite[i].there
      <3>1. End(j, "refused") /\ lock' = lock
        BY <1>3, <2>2 DEF Lock
      <3> QED BY <1>3, <2>1, <2>2, <3>1 DEF Lock, Ends, Answers, Holding, Dead, Issued
    <2>3. CASE invite[i].there /\ join[j].member
      <3>1. End(j, "guild") /\ lock' = lock
        BY <1>3, <2>3 DEF Lock
      <3> QED BY <1>3, <2>1, <2>3, <3>1 DEF Lock, Ends, Answers, Holding, Waits
    <2>4. CASE invite[i].there /\ ~join[j].member
               /\ (invite[i].disabled \/ Full(i) \/ join[j].expired)
      <3>1. End(j, "refused") /\ lock' = lock
        BY <1>3, <2>4 DEF Lock
      <3> QED BY <1>3, <2>1, <2>4, <3>1 DEF Lock, Ends, Answers, Holding, Waits, Dead
    <2>5. CASE invite[i].there /\ ~join[j].member
               /\ ~(invite[i].disabled \/ Full(i) \/ join[j].expired)
      BY <1>3, <2>1, <2>5 DEF Lock, Takes
    <2> QED BY <2>2, <2>3, <2>4, <2>5
  <1>4. CASE Commit(j)
    <2>1. CASE join[j].at = "skipped"
      BY <1>4, <2>1 DEF Commit, Ends, Answers, Holding, LedgerInv, InsertsOK
    <2>2. CASE join[j].at # "skipped"
      BY <1>4, <2>2 DEF Commit, Admits
    <2> QED BY <2>1, <2>2
  <1>5. CASE JoinErrs(j) \/ JoinDeadlocks(j)
    BY <1>5 DEF JoinErrs, JoinDeadlocks, Rollback, Ends, Answers, Holding
  <1> QED BY <1>1, <1>2, <1>3, <1>4, <1>5 DEF JoinStep

-----------------------------------------------------------------------------
(* The steps of joins.                                                     *)

(* The records that a join writes; what a snapshot said is a truth value.    *)
Truth(S, u) == IF u \in S THEN TRUE ELSE FALSE

LEMMA TruthIsMembership == ASSUME NEW S, NEW u PROVE (u \in S) = Truth(S, u)
  <1>1. CASE u \in S
    <2>1. (u \in S) = TRUE
      BY <1>1, Zenon
    <2>2. Truth(S, u) = TRUE
      BY <1>1 DEF Truth
    <2> QED BY <2>1, <2>2, Zenon
  <1>2. CASE u \notin S
    <2>1. (u \in S) = FALSE
      BY <1>2
    <2>2. Truth(S, u) = FALSE
      BY <1>2 DEF Truth
    <2> QED BY <2>1, <2>2, Zenon
  <1> QED BY <1>1, <1>2

Started(x, M, S, e) ==
    [x EXCEPT !.at = "locking", !.member = Truth(M, x.by), !.used = Truth(S, x.by),
              !.expired = e]

LEMMA StartedType ==
    ASSUME NEW x \in Join, NEW M, NEW S, NEW e \in BOOLEAN
    PROVE  LET y == Started(x, M, S, e) IN
           /\ y \in Join /\ y.at = "locking" /\ y.by = x.by /\ y.code = x.code
           /\ y.member <=> x.by \in M
           /\ y.used <=> x.by \in S
           /\ y.expired = e
  BY DEF Join, Started, Truth

UsedBy(x, s, n) == [x EXCEPT !.used = s, !.uses = n]

LEMMA UsedType ==
    ASSUME NEW x \in Invite, NEW s \in SUBSET Users, NEW n \in Nat
    PROVE  LET y == UsedBy(x, s, n) IN
           /\ y \in Invite /\ y.used = s /\ y.uses = n
           /\ y.there = x.there /\ y.disabled = x.disabled
           /\ y.expired = x.expired /\ y.audits = x.audits
  BY DEF Invite, UsedBy

(* What is not about joins and locks stays when its variables do.           *)
LEMMA OthersStay ==
    ASSUME LedgerInv, UNCHANGED <<guild, members, invite, revoke>>
    PROVE  GoneIsEmpty' /\ RevokesOK' /\ LedgersAgree' /\ OneUse'
  <1>1. GoneIsEmpty'
    BY DEF LedgerInv, GoneIsEmpty
  <1>2. RevokesOK'
    BY DEF LedgerInv, RevokesOK, Issued, Dead, Full
  <1>3. LedgersAgree'
    BY DEF LedgerInv, LedgersAgree
  <1>4. OneUse'
    BY DEF LedgerInv, OneUse
  <1> QED BY <1>1, <1>2, <1>3, <1>4

(* A request that is over, or not changed, asks for nothing new.            *)
LEMMA AnsweredJoins ==
    ASSUME LedgerInv, NEW j \in Joins, join'[j].at = "over",
           \A k \in Joins : k # j => join'[k] = join[k],
           UNCHANGED <<guild, members, invite>>
    PROVE  JoinsOK' /\ InsertsOK'
  <1>1. JoinsOK'
    BY DEF LedgerInv, JoinsOK, Issued, Waits, Holds, Holding, Dead, Full
  <1>2. InsertsOK'
    BY DEF LedgerInv, InsertsOK
  <1> QED BY <1>1, <1>2

(* The end of a request releases what it held.                              *)
LEMMA ReleasedLocks ==
    ASSUME LedgerInv, NEW j \in Joins, join'[j].at = "over",
           \A k \in Joins : k # j => join'[k] = join[k],
           join[j].at \notin {"unused", "over"},
           lock' = IF Holding(j) THEN Release(join[j].code) ELSE lock,
           UNCHANGED <<guild, revoke>>
    PROVE  lock' \in [Codes -> Joins \cup Revokes \cup {Deletion, None}] /\ LocksAreHeld'
  <1>1. /\ lock \in [Codes -> Joins \cup Revokes \cup {Deletion, None}]
        /\ None \notin Joins \cup Revokes \cup {Deletion} /\ Deletion \notin Joins \cup Revokes
        /\ Joins \cap Revokes = {}
    BY InviteAssumption DEF LedgerInv, LocksInv, Typed
  <1>2. \A k \in Joins \ {j} : Holding(k)' = Holding(k) /\ join'[k].code = join[k].code
    BY DEF Holding
  <1>3. ~Holding(j)'
    BY DEF Holding
  <1>4. CASE Holding(j)
    <2>1. join[j].code \in Codes /\ lock[join[j].code] = j
      BY <1>4 DEF LedgerInv, LocksInv, LocksAreHeld, JoinsOK, Issued
    <2>2. lock' = [lock EXCEPT ![join[j].code] = None]
      BY <1>4 DEF Release
    <2> QED BY <1>1, <1>2, <1>3, <2>1, <2>2 DEF LedgerInv, LocksInv, LocksAreHeld
  <1>5. CASE ~Holding(j)
    BY <1>1, <1>2, <1>3, <1>5 DEF LedgerInv, LocksInv, LocksAreHeld
  <1> QED BY <1>4, <1>5

LEMMA EndsLedger == ASSUME LedgerInv, NEW j \in Joins, Ends(j) PROVE LedgerInv'
  <1>1. PICK answer \in Answers : End(j, answer)
    BY DEF Ends
  <1>2. /\ join' \in [Joins -> Join] /\ tab' \in [Tabs -> Page]
        /\ join'[j].at = "over" /\ \A k \in Joins : k # j => join'[k] = join[k]
    BY <1>1, EndEffect DEF LedgerInv, LocksInv
  <1>3. JoinsOK' /\ InsertsOK'
    BY <1>2, AnsweredJoins DEF Ends
  <1>4. lock' \in [Codes -> Joins \cup Revokes \cup {Deletion, None}] /\ LocksAreHeld'
    BY <1>2, ReleasedLocks DEF Ends
  <1>5. Typed'
    BY <1>2, <1>4 DEF Ends, LedgerInv, LocksInv, Typed
  <1>6. GoneIsEmpty' /\ RevokesOK' /\ LedgersAgree' /\ OneUse'
    BY OthersStay DEF Ends
  <1> QED BY <1>3, <1>4, <1>5, <1>6 DEF LedgerInv, LocksInv

LEMMA StartsLedger == ASSUME LedgerInv, NEW j \in Joins, Starts(j) PROVE LedgerInv'
  <1>1. /\ join[j] \in Join /\ join[j].by \in Users /\ join[j].code \in Codes
        /\ Issued(join[j].code)
    BY DEF LedgerInv, LocksInv, Typed, JoinsOK, Starts, Issued
  <1>2. /\ join' \in [Joins -> Join] /\ \A k \in Joins : k # j => join'[k] = join[k]
        /\ join'[j].at = "locking" /\ join'[j].by = join[j].by
        /\ join'[j].code = join[j].code
        /\ join'[j].member <=> join[j].by \in members
        /\ join'[j].used <=> join[j].by \in invite[join[j].code].used
        /\ join'[j].expired = invite[join[j].code].expired
    <2> DEFINE S == invite[join[j].code].used
               e == invite[join[j].code].expired
               y == Started(join[j], members, S, e)
    <2>1. e \in BOOLEAN
      BY <1>1 DEF LedgerInv, LocksInv, Typed, Invite
    <2>2. join' = [join EXCEPT ![j] = y]
      <3>1. join' = [join EXCEPT ![j] =
                [join[j] EXCEPT !.at = "locking", !.member = join[j].by \in members,
                                !.used = join[j].by \in S, !.expired = e]]
        BY Zenon DEF Starts
      <3> QED BY <3>1, TruthIsMembership, Zenon DEF Started
    <2>3. /\ y \in Join /\ y.at = "locking" /\ y.by = join[j].by /\ y.code = join[j].code
          /\ y.member <=> join[j].by \in members
          /\ y.used <=> join[j].by \in S
          /\ y.expired = e
      BY <1>1, <2>1, StartedType
    <2> HIDE DEF y
    <2> QED BY <2>2, <2>3 DEF LedgerInv, LocksInv, Typed
  <1>3. Typed'
    BY <1>2 DEF LedgerInv, LocksInv, Typed, Starts
  <1>4. LocksAreHeld'
    BY <1>2 DEF LedgerInv, LocksInv, LocksAreHeld, Starts, Holding
  <1>5. GoneIsEmpty' /\ RevokesOK' /\ LedgersAgree' /\ OneUse'
    BY OthersStay DEF Starts
  <1>6. Waits(j)'
    BY <1>1, <1>2 DEF Starts, Waits, Dead, LedgerInv, OneUse
  <1>7. JoinsOK'
    BY <1>1, <1>2, <1>6
    DEF LedgerInv, Starts, JoinsOK, Issued, Waits, Holds, Holding, Dead, Full
  <1>8. InsertsOK'
    BY <1>2 DEF LedgerInv, Starts, InsertsOK
  <1> QED BY <1>3, <1>4, <1>5, <1>7, <1>8 DEF LedgerInv, LocksInv

LEMMA TakesLedger == ASSUME LedgerInv, NEW j \in Joins, Takes(j) PROVE LedgerInv'
  <1>1. /\ join[j] \in Join /\ join[j].by \in Users /\ join[j].code \in Codes
        /\ Issued(join[j].code) /\ Waits(j)
    BY DEF LedgerInv, LocksInv, Typed, JoinsOK, Takes, Issued
  <1>2. /\ join' \in [Joins -> Join] /\ \A k \in Joins : k # j => join'[k] = join[k]
        /\ join'[j] = [join[j] EXCEPT !.at = "joinable"]
    BY <1>1 DEF LedgerInv, LocksInv, Typed, Takes, Join
  <1>3. /\ join'[j].at = "joinable" /\ join'[j].by = join[j].by
        /\ join'[j].code = join[j].code /\ join'[j].used = join[j].used
    BY <1>1, <1>2 DEF Join
  <1>4. Typed'
    BY <1>1, <1>2 DEF LedgerInv, LocksInv, Typed, Takes
  <1>5. LocksAreHeld'
    <2>1. Joins \cap Revokes = {} /\ Deletion \notin Joins \cup Revokes /\ None \notin Joins \cup Revokes
      BY InviteAssumption
    <2>2. lock[join[j].code] = None /\ lock' = [lock EXCEPT ![join[j].code] = j]
      BY DEF Takes, Free
    <2>3. lock \in [Codes -> Joins \cup Revokes \cup {Deletion, None}]
      BY DEF LedgerInv, LocksInv, Typed
    <2> QED BY <1>1, <1>2, <1>3, <2>1, <2>2, <2>3
         DEF LedgerInv, LocksInv, LocksAreHeld, Takes, Holding
  <1>6. GoneIsEmpty' /\ RevokesOK' /\ LedgersAgree' /\ OneUse'
    BY OthersStay DEF Takes
  <1>7. Holds(j)'
    <2>1. invite[join[j].code] \in Invite /\ MaxUses[join[j].code] \in Nat
      BY <1>1, InviteAssumption DEF LedgerInv, LocksInv, Typed
    <2> QED BY <1>1, <1>3, <2>1 DEF Takes, Holds, Full, Waits, Invite
  <1>8. JoinsOK'
    BY <1>1, <1>2, <1>3, <1>7
    DEF LedgerInv, Takes, JoinsOK, Issued, Waits, Holds, Holding, Dead, Full
  <1>9. InsertsOK'
    BY <1>2, <1>3 DEF LedgerInv, Takes, InsertsOK
  <1> QED BY <1>4, <1>5, <1>6, <1>8, <1>9 DEF LedgerInv, LocksInv

LEMMA InsertMemberLedger ==
    ASSUME LedgerInv, NEW j \in Joins, InsertMember(j) PROVE LedgerInv'
  <1> DEFINE to == IF join[j].by \in members THEN "skipped" ELSE "inserted"
  <1>1. join[j] \in Join /\ join[j].at = "joinable" /\ Holding(j)
    BY DEF LedgerInv, LocksInv, Typed, InsertMember, Holding
  <1>2. /\ join' \in [Joins -> Join] /\ \A k \in Joins : k # j => join'[k] = join[k]
        /\ join'[j] = [join[j] EXCEPT !.at = to]
    BY <1>1 DEF LedgerInv, LocksInv, Typed, InsertMember, Join
  <1>3. /\ join'[j].at = to /\ join'[j].by = join[j].by
        /\ join'[j].code = join[j].code /\ join'[j].used = join[j].used
    BY <1>1, <1>2 DEF Join
  <1>4. Typed'
    BY <1>2 DEF LedgerInv, LocksInv, Typed, InsertMember
  <1>5. LocksAreHeld'
    BY <1>1, <1>2, <1>3 DEF LedgerInv, LocksInv, LocksAreHeld, InsertMember, Holding
  <1>6. GoneIsEmpty' /\ RevokesOK' /\ LedgersAgree' /\ OneUse'
    BY OthersStay DEF InsertMember
  <1>7. JoinsOK'
    BY <1>1, <1>2, <1>3
    DEF LedgerInv, InsertMember, JoinsOK, Issued, Waits, Holds, Holding, Dead, Full
  <1>8. InsertsOK'
    BY <1>2, <1>3 DEF LedgerInv, InsertMember, Inserting, InsertsOK
  <1> QED BY <1>4, <1>5, <1>6, <1>7, <1>8 DEF LedgerInv, LocksInv

(* One use, of an invite that is not disabled, for one who was no member.   *)
LEMMA AdmitsInvite ==
    ASSUME LedgerInv, NEW j \in Joins, Admits(j)
    PROVE  LET i == join[j].code
               u == join[j].by
           IN  /\ u \in Users /\ i \in Codes /\ Holding(j) /\ Holds(j)
               /\ u \notin members /\ u \notin invite[i].used /\ guild # "gone"
               /\ invite[i] \in Invite /\ invite' \in [Codes -> Invite]
               /\ \A k \in Codes : k # i => invite'[k] = invite[k]
               /\ invite'[i].used = invite[i].used \cup {u}
               /\ invite'[i].uses = invite[i].uses + 1
               /\ invite'[i].there = invite[i].there
               /\ invite'[i].disabled = invite[i].disabled
               /\ invite'[i].expired = invite[i].expired
               /\ invite'[i].audits = invite[i].audits
  <1> DEFINE i == join[j].code
             u == join[j].by
  <1>1. /\ u \in Users /\ i \in Codes /\ Holding(j) /\ Holds(j)
        /\ u \notin members /\ u \notin invite[i].used /\ guild # "gone"
    BY DEF LedgerInv, JoinsOK, InsertsOK, Admits, Holding, Issued, OneUse, GoneIsEmpty, Holds
  <1>2. /\ invite[i] \in Invite
        /\ invite' = [invite EXCEPT ![i] =
               [invite[i] EXCEPT !.used = invite[i].used \cup {u}, !.uses = invite[i].uses + 1]]
    BY <1>1 DEF LedgerInv, LocksInv, Typed, Admits, Used, Holds
  <1>3. /\ invite' \in [Codes -> Invite]
        /\ \A k \in Codes : k # i => invite'[k] = invite[k]
        /\ invite'[i].used = invite[i].used \cup {u} /\ invite'[i].uses = invite[i].uses + 1
        /\ invite'[i].there = invite[i].there /\ invite'[i].disabled = invite[i].disabled
        /\ invite'[i].expired = invite[i].expired /\ invite'[i].audits = invite[i].audits
    <2>1. invite[i].used \cup {u} \in SUBSET Users /\ invite[i].uses + 1 \in Nat
      BY <1>1, <1>2 DEF Invite
    <2> DEFINE y == UsedBy(invite[i], invite[i].used \cup {u}, invite[i].uses + 1)
    <2>2. invite' = [invite EXCEPT ![i] = y]
      BY <1>2 DEF UsedBy
    <2>3. /\ y \in Invite
          /\ y.used = invite[i].used \cup {u} /\ y.uses = invite[i].uses + 1
          /\ y.there = invite[i].there /\ y.disabled = invite[i].disabled
          /\ y.expired = invite[i].expired /\ y.audits = invite[i].audits
      BY <1>2, <2>1, UsedType
    <2> HIDE DEF y
    <2> QED BY <1>1, <2>2, <2>3 DEF LedgerInv, LocksInv, Typed
  <1> QED BY <1>1, <1>2, <1>3

LEMMA AdmitsLedger == ASSUME LedgerInv, NEW j \in Joins, Admits(j) PROVE LedgerInv'
  <1> DEFINE i == join[j].code
             u == join[j].by
  <1>1. /\ u \in Users /\ i \in Codes /\ Holding(j) /\ Holds(j)
        /\ u \notin members /\ u \notin invite[i].used /\ guild # "gone"
    BY AdmitsInvite
  <1>2. invite[i] \in Invite
    BY AdmitsInvite
  <1>3. /\ invite' \in [Codes -> Invite]
        /\ \A k \in Codes : k # i => invite'[k] = invite[k]
        /\ invite'[i].used = invite[i].used \cup {u} /\ invite'[i].uses = invite[i].uses + 1
        /\ invite'[i].there = invite[i].there /\ invite'[i].disabled = invite[i].disabled
        /\ invite'[i].expired = invite[i].expired /\ invite'[i].audits = invite[i].audits
    BY AdmitsInvite
  <1>4. /\ join' \in [Joins -> Join] /\ tab' \in [Tabs -> Page]
        /\ join'[j].at = "over" /\ \A k \in Joins : k # j => join'[k] = join[k]
    BY EndEffect DEF LedgerInv, LocksInv, Admits, Answers
  <1>5. lock' \in [Codes -> Joins \cup Revokes \cup {Deletion, None}] /\ LocksAreHeld'
    <2>1. lock' = IF Holding(j) THEN Release(i) ELSE lock
      BY <1>1 DEF Admits
    <2> QED BY <1>4, <2>1, ReleasedLocks DEF Admits
  <1>6. Typed'
    BY <1>1, <1>3, <1>4, <1>5 DEF LedgerInv, LocksInv, Typed, Admits
  <1>7. GoneIsEmpty'
    BY <1>1 DEF GoneIsEmpty, Admits
  <1>8. \A k \in Joins : k # j /\ Holding(k) => join[k].code # i
    BY <1>1 DEF LedgerInv, LocksInv, LocksAreHeld
  <1>9. \A k \in Codes : invite[k].uses <= invite'[k].uses /\ (Dead(k) => Dead(k)')
    BY <1>1, <1>3, InviteAssumption DEF LedgerInv, LocksInv, Typed, Invite, Dead, Full, Admits
  <1>10. JoinsOK'
    <2>1. SUFFICES ASSUME NEW k \in Joins, k # j
          PROVE  /\ join[k].at \notin {"unused", "over"} =>
                        join[k].by \in Users /\ Issued(join[k].code)'
                 /\ join[k].at = "locking" =>
                        /\ join[k].used => join[k].member
                        /\ join[k].member => join[k].by \in members' \/ guild' = "gone"
                        /\ join[k].expired => Dead(join[k].code)'
                 /\ Holding(k) =>
                        LET c == join[k].code IN
                        /\ invite'[c].there /\ ~invite'[c].disabled
                        /\ invite'[c].uses < MaxUses[c] /\ ~join[k].used
      BY <1>4 DEF JoinsOK, Waits, Holds, Holding, Issued, Dead, Full
    <2>2. join[k].at \notin {"unused", "over"} =>
              join[k].by \in Users /\ Issued(join[k].code) /\ Issued(join[k].code)'
      BY <1>3, <1>4, <2>1 DEF LedgerInv, JoinsOK, Issued, Admits
    <2>3. join[k].at = "locking" =>
              /\ join[k].used => join[k].member
              /\ join[k].member => join[k].by \in members' \/ guild' = "gone"
              /\ join[k].expired => Dead(join[k].code)'
      BY <1>4, <1>9, <2>1, <2>2 DEF LedgerInv, JoinsOK, Waits, Admits, Issued
    <2>4. Holding(k) => join[k].code \in Codes /\ join[k].code # i
      BY <1>8, <2>1, <2>2 DEF Holding, Issued
    <2> QED BY <1>3, <2>2, <2>3, <2>4 DEF LedgerInv, JoinsOK, Holds
  <1>11. InsertsOK'
    BY <1>1, <1>4 DEF LedgerInv, InsertsOK, Admits
  <1>12. RevokesOK'
    BY <1>1, <1>3, <1>9 DEF LedgerInv, RevokesOK, Issued, Admits
  <1>13. LedgersAgree'
    <2>1. IsFiniteSet(invite[i].used)
      BY <1>2, InviteAssumption, FS_Subset DEF Invite
    <2>2. Cardinality(invite'[i].used) = Cardinality(invite[i].used) + 1
      BY <1>1, <1>3, <2>1, FS_AddElement
    <2>3. MaxUses[i] \in Nat /\ invite[i].uses \in Nat
      BY <1>1, <1>2, InviteAssumption DEF Invite
    <2>4. invite[i].uses < MaxUses[i]
      BY <1>1 DEF Holds
    <2>5. /\ invite'[i].uses = Cardinality(invite'[i].used) /\ invite'[i].uses <= MaxUses[i]
          /\ invite'[i].audits = IF invite'[i].disabled THEN 1 ELSE 0
      BY <1>1, <1>3, <2>2, <2>3, <2>4 DEF LedgerInv, LedgersAgree
    <2>6. ASSUME NEW k \in Codes, k # i
          PROVE  /\ invite'[k].uses = Cardinality(invite'[k].used)
                 /\ invite'[k].uses <= MaxUses[k]
                 /\ invite'[k].audits = IF invite'[k].disabled THEN 1 ELSE 0
      BY <1>3, <2>6 DEF LedgerInv, LedgersAgree
    <2> QED BY <2>5, <2>6 DEF LedgersAgree
  <1>14. OneUse'
    BY <1>1, <1>3 DEF LedgerInv, OneUse, Admits
  <1> QED BY <1>5, <1>6, <1>7, <1>10, <1>11, <1>12, <1>13, <1>14 DEF LedgerInv, LocksInv

-----------------------------------------------------------------------------
(* The steps of invites, pages, revocations and the deletion.              *)

(* What is only about the stores and the requests stays when they do.       *)
LEMMA StoresStay ==
    ASSUME LedgerInv, UNCHANGED <<guild, members, invite, join>>
    PROVE  GoneIsEmpty' /\ JoinsOK' /\ InsertsOK' /\ LedgersAgree' /\ OneUse'
  <1>1. GoneIsEmpty' /\ LedgersAgree' /\ OneUse'
    BY DEF LedgerInv, GoneIsEmpty, LedgersAgree, OneUse
  <1>2. JoinsOK'
    BY DEF LedgerInv, JoinsOK, Issued, Waits, Holds, Holding, Dead, Full
  <1>3. InsertsOK'
    BY DEF LedgerInv, InsertsOK
  <1> QED BY <1>1, <1>2, <1>3

(* An invite that appears or expires disturbs nobody.                       *)
LEMMA InviteAges ==
    ASSUME LedgerInv, guild # "gone", invite' \in [Codes -> Invite],
           \A i \in Codes :
               /\ invite[i].there => invite'[i].there
               /\ invite[i].expired => invite'[i].expired
               /\ invite'[i].disabled = invite[i].disabled
               /\ invite'[i].uses = invite[i].uses /\ invite'[i].used = invite[i].used
               /\ invite'[i].audits = invite[i].audits,
           UNCHANGED <<guild, members, lock, join, revoke, tab>>
    PROVE  LedgerInv'
  <1>1. Typed' /\ LocksAreHeld' /\ GoneIsEmpty' /\ InsertsOK'
    BY DEF LedgerInv, LocksInv, Typed, LocksAreHeld, Holding, GoneIsEmpty, InsertsOK
  <1>2. \A i : (Issued(i) => Issued(i)') /\ (i \in Codes => (Dead(i) => Dead(i)'))
    BY DEF Issued, Dead, Full
  <1>3. JoinsOK'
    <2>1. SUFFICES ASSUME NEW j \in Joins
          PROVE  /\ join[j].at \notin {"unused", "over"} =>
                        join[j].by \in Users /\ Issued(join[j].code)'
                 /\ join[j].at = "locking" =>
                        /\ join[j].used => join[j].member
                        /\ join[j].member => join[j].by \in members \/ guild = "gone"
                        /\ join[j].expired => Dead(join[j].code)'
                 /\ Holding(j) =>
                        LET c == join[j].code IN
                        /\ invite'[c].there /\ ~invite'[c].disabled
                        /\ invite'[c].uses < MaxUses[c] /\ ~join[j].used
      BY DEF JoinsOK, Waits, Holds, Holding, Issued, Dead, Full
    <2>2. join[j].at \notin {"unused", "over"} =>
              join[j].by \in Users /\ Issued(join[j].code) /\ join[j].code \in Codes
      BY DEF LedgerInv, JoinsOK, Issued
    <2> QED BY <1>2, <2>2 DEF LedgerInv, JoinsOK, Waits, Holds, Holding
  <1>4. RevokesOK'
    <2>1. SUFFICES ASSUME NEW r \in Revokes
          PROVE  /\ revoke[r].at \in {"locking", "holding", "checking"} =>
                        Issued(revoke[r].code)'
                 /\ revoke[r].at = "holding" =>
                        invite'[revoke[r].code].there /\ ~invite'[revoke[r].code].disabled
                 /\ revoke[r].at = "checking" => Dead(revoke[r].code)'
                 /\ revoke[r].at # "unexplained"
      BY DEF RevokesOK, Issued, Dead, Full
    <2>2. revoke[r].at \in {"locking", "holding", "checking"} =>
              Issued(revoke[r].code) /\ revoke[r].code \in Codes
      BY DEF LedgerInv, RevokesOK, Issued
    <2> QED BY <1>2, <2>2 DEF LedgerInv, RevokesOK
  <1>5. LedgersAgree'
    BY DEF LedgerInv, LedgersAgree
  <1>6. OneUse'
    BY DEF LedgerInv, OneUse
  <1> QED BY <1>1, <1>3, <1>4, <1>5, <1>6 DEF LedgerInv, LocksInv

LEMMA IssueLedger ==
    ASSUME LedgerInv, NEW i \in Codes, CreateInvite(i) \/ Expire(i) PROVE LedgerInv'
  <1>1. invite \in [Codes -> Invite] /\ invite[i] \in Invite
    BY DEF LedgerInv, LocksInv, Typed
  <1>2. CASE CreateInvite(i)
    <2>1. invite' = [invite EXCEPT ![i] = [invite[i] EXCEPT !.there = TRUE]]
      BY <1>1, <1>2 DEF CreateInvite
    <2>2. guild # "gone"
      BY <1>2 DEF CreateInvite
    <2>3. /\ invite' \in [Codes -> Invite]
          /\ \A k \in Codes : k # i => invite'[k] = invite[k]
      BY <1>1, <2>1 DEF Invite
    <2>4. /\ invite[i].there => invite'[i].there
          /\ invite[i].expired => invite'[i].expired
          /\ invite'[i].disabled = invite[i].disabled
          /\ invite'[i].uses = invite[i].uses /\ invite'[i].used = invite[i].used
          /\ invite'[i].audits = invite[i].audits
      BY <1>1, <2>1 DEF Invite
    <2> QED BY <1>2, <2>2, <2>3, <2>4, InviteAges DEF CreateInvite
  <1>3. CASE Expire(i)
    <2>1. invite' = [invite EXCEPT ![i] = [invite[i] EXCEPT !.expired = TRUE]]
      BY <1>1, <1>3 DEF Expire
    <2>2. guild # "gone"
      BY <1>3 DEF Expire, LedgerInv, GoneIsEmpty
    <2>3. /\ invite' \in [Codes -> Invite]
          /\ \A k \in Codes : k # i => invite'[k] = invite[k]
      BY <1>1, <2>1 DEF Invite
    <2>4. /\ invite[i].there => invite'[i].there
          /\ invite[i].expired => invite'[i].expired
          /\ invite'[i].disabled = invite[i].disabled
          /\ invite'[i].uses = invite[i].uses /\ invite'[i].used = invite[i].used
          /\ invite'[i].audits = invite[i].audits
      BY <1>1, <2>1 DEF Invite
    <2> QED BY <1>3, <2>2, <2>3, <2>4, InviteAges DEF Expire
  <1> QED BY <1>2, <1>3

LEMMA PageLedger ==
    ASSUME LedgerInv, tab' \in [Tabs -> Page],
           UNCHANGED <<guild, members, invite, lock, join, revoke>>
    PROVE  LedgerInv'
  <1>1. GoneIsEmpty' /\ JoinsOK' /\ InsertsOK' /\ LedgersAgree' /\ OneUse'
    BY StoresStay
  <1>2. RevokesOK'
    BY OthersStay
  <1>3. Typed' /\ LocksAreHeld'
    BY DEF LedgerInv, LocksInv, Typed, LocksAreHeld, Holding
  <1> QED BY <1>1, <1>2, <1>3 DEF LedgerInv, LocksInv

LEMMA BrowseLedger ==
    ASSUME LedgerInv, NEW t \in Tabs,
           (\E u \in Users, i \in Codes : Visit(t, u, i)) \/ Load(t) \/ Retry(t)
    PROVE  LedgerInv' /\ tab' \in [Tabs -> Page]
  <1>1. tab \in [Tabs -> Page] /\ tab[t] \in Page
    BY DEF LedgerInv, LocksInv, Typed
  <1>2. CASE \E u \in Users, i \in Codes : Visit(t, u, i)
    <2>1. PICK u \in Users, i \in Codes : Visit(t, u, i)
      BY <1>2
    <2>2. [Away EXCEPT !.at = "loading", !.by = u, !.code = i] \in Page
      BY DEF Away, Page
    <2>3. tab' \in [Tabs -> Page]
      BY <1>1, <2>1, <2>2 DEF Visit
    <2> QED BY <2>1, <2>3, PageLedger DEF Visit
  <1>3. CASE Load(t)
    <2>1. Verify(tab[t].code) \in {"valid", "expired", "invalid", "unavailable"}
      BY DEF Verify
    <2>2. PICK content \in {"valid", "expired", "invalid", "unavailable"} :
              tab' = [tab EXCEPT ![t] = [tab[t] EXCEPT !.at = "shown", !.content = content]]
      BY <1>1, <1>3, <2>1, Zenon DEF Load
    <2>3. [tab[t] EXCEPT !.at = "shown", !.content = content] \in Page
      BY <1>1 DEF Page
    <2>4. tab' \in [Tabs -> Page]
      BY <1>1, <2>2, <2>3
    <2> QED BY <1>3, <2>4, PageLedger DEF Load
  <1>4. CASE Retry(t)
    <2>1. tab' \in [Tabs -> Page]
      BY <1>1, <1>4 DEF Retry, Page
    <2> QED BY <1>4, <2>1, PageLedger DEF Retry
  <1> QED BY <1>2, <1>3, <1>4

(* A request takes its visitor and its invite from its page.                *)
LEMMA AttemptLedger ==
    ASSUME InviteInv, NEW t \in Tabs, NEW j \in Joins, Attempt(t, j)
    PROVE  /\ LedgerInv' /\ join'[j].tab = t /\ join'[j].at = "sent"
           /\ join'[j].by = tab[t].by /\ join'[j].code = tab[t].code
           /\ \A k \in Joins : k # j => join'[k] = join[k]
           /\ tab'[t] = [tab[t] EXCEPT !.at = "joining"]
           /\ \A s \in Tabs : s # t => tab'[s] = tab[s]
  <1> DEFINE y == [NoJoin EXCEPT !.at = "sent", !.by = tab[t].by, !.code = tab[t].code, !.tab = t]
  <1>1. /\ LedgerInv /\ tab[t] \in Page /\ tab[t].by \in Users /\ tab[t].code \in Codes
        /\ Issued(tab[t].code)
    BY DEF InviteInv, LedgerInv, LocksInv, Typed, PagesOK, PageOK, Attempt, Issued
  <1>2. /\ y \in Join /\ y.at = "sent" /\ y.by = tab[t].by /\ y.code = tab[t].code /\ y.tab = t
    BY <1>1 DEF NoJoin, Join
  <1>3. join' = [join EXCEPT ![j] = y] /\ tab' = [tab EXCEPT ![t] = [tab[t] EXCEPT !.at = "joining"]]
    BY <1>1 DEF Attempt, LedgerInv, LocksInv, Typed
  <1> HIDE DEF y
  <1>4. /\ join' \in [Joins -> Join] /\ join'[j] = y
        /\ \A k \in Joins : k # j => join'[k] = join[k]
    BY <1>1, <1>2, <1>3 DEF LedgerInv, LocksInv, Typed
  <1>5. [tab[t] EXCEPT !.at = "joining"] \in Page
    BY <1>1 DEF Page
  <1>6. /\ tab' \in [Tabs -> Page] /\ tab'[t] = [tab[t] EXCEPT !.at = "joining"]
        /\ \A s \in Tabs : s # t => tab'[s] = tab[s]
    BY <1>1, <1>3, <1>5 DEF LedgerInv, LocksInv, Typed
  <1>7. Typed'
    BY <1>1, <1>4, <1>6 DEF LedgerInv, LocksInv, Typed, Attempt
  <1>8. join[j].at = "unused" /\ ~Holding(j) /\ ~Holding(j)'
    BY <1>2, <1>4 DEF Attempt, Holding
  <1>9. LocksAreHeld'
    BY <1>1, <1>4, <1>8 DEF LedgerInv, LocksInv, LocksAreHeld, Attempt, Holding
  <1>10. GoneIsEmpty' /\ RevokesOK' /\ LedgersAgree' /\ OneUse'
    BY <1>1, OthersStay DEF Attempt
  <1>11. JoinsOK'
    BY <1>1, <1>2, <1>4
    DEF LedgerInv, Attempt, JoinsOK, Issued, Waits, Holds, Holding, Dead, Full
  <1>12. InsertsOK'
    BY <1>1, <1>2, <1>4 DEF LedgerInv, Attempt, InsertsOK
  <1> QED BY <1>2, <1>4, <1>6, <1>7, <1>9, <1>10, <1>11, <1>12 DEF LedgerInv, LocksInv

LEMMA DisconnectLedger ==
    ASSUME LedgerInv, NEW j \in Joins, Disconnect(j)
    PROVE  /\ LedgerInv' /\ join[j].tab \in Tabs /\ join'[j].tab = None
           /\ \A k \in Joins : k # j => join'[k] = join[k]
           /\ tab'[join[j].tab] = [tab[join[j].tab] EXCEPT !.at = "shown"]
           /\ \A s \in Tabs : s # join[j].tab => tab'[s] = tab[s]
  <1>1. join[j] \in Join /\ join[j].tab \in Tabs /\ tab[join[j].tab] \in Page
    BY DEF LedgerInv, LocksInv, Typed, Join, Disconnect
  <1>2. /\ join' = [join EXCEPT ![j] = [join[j] EXCEPT !.tab = None]]
        /\ tab' = [tab EXCEPT ![join[j].tab] = [tab[join[j].tab] EXCEPT !.at = "shown"]]
    BY <1>1 DEF Disconnect, LedgerInv, LocksInv, Typed
  <1>3. /\ join' \in [Joins -> Join] /\ join'[j] = [join[j] EXCEPT !.tab = None]
        /\ \A k \in Joins : k # j => join'[k] = join[k]
    BY <1>1, <1>2 DEF LedgerInv, LocksInv, Typed, Join
  <1>4. /\ tab' \in [Tabs -> Page]
        /\ tab'[join[j].tab] = [tab[join[j].tab] EXCEPT !.at = "shown"]
        /\ \A s \in Tabs : s # join[j].tab => tab'[s] = tab[s]
    BY <1>1, <1>2 DEF LedgerInv, LocksInv, Typed, Page
  <1>5. /\ join'[j].tab = None /\ join'[j].at = join[j].at /\ join'[j].by = join[j].by
        /\ join'[j].code = join[j].code /\ join'[j].member = join[j].member
        /\ join'[j].used = join[j].used /\ join'[j].expired = join[j].expired
    BY <1>1, <1>3 DEF Join
  <1>6. Typed'
    BY <1>3, <1>4 DEF LedgerInv, LocksInv, Typed, Disconnect
  <1>7. LocksAreHeld'
    BY <1>3, <1>5 DEF LedgerInv, LocksInv, LocksAreHeld, Disconnect, Holding
  <1>8. GoneIsEmpty' /\ RevokesOK' /\ LedgersAgree' /\ OneUse'
    BY OthersStay DEF Disconnect
  <1>9. JoinsOK'
    BY <1>3, <1>5
    DEF LedgerInv, Disconnect, JoinsOK, Issued, Waits, Holds, Holding, Dead, Full
  <1>10. InsertsOK'
    BY <1>3, <1>5 DEF LedgerInv, Disconnect, InsertsOK
  <1> QED BY <1>1, <1>3, <1>4, <1>5, <1>6, <1>7, <1>8, <1>9, <1>10 DEF LedgerInv, LocksInv

(* A revocation that moves on without touching an invite.                   *)
LEMMA RevokeMoves ==
    ASSUME LedgerInv, NEW r \in Revokes, revoke' \in [Revokes -> Revoke],
           \A q \in Revokes : q # r => revoke'[q] = revoke[q],
           lock' \in [Codes -> Joins \cup Revokes \cup {Deletion, None}], LocksAreHeld',
           revoke'[r].at \in {"locking", "holding", "checking"} => Issued(revoke'[r].code),
           revoke'[r].at = "holding" =>
               invite[revoke'[r].code].there /\ ~invite[revoke'[r].code].disabled,
           revoke'[r].at = "checking" => Dead(revoke'[r].code),
           revoke'[r].at # "unexplained",
           UNCHANGED <<guild, members, invite, join, tab>>
    PROVE  LedgerInv'
  <1>1. GoneIsEmpty' /\ JoinsOK' /\ InsertsOK' /\ LedgersAgree' /\ OneUse'
    BY StoresStay
  <1>2. RevokesOK'
    BY DEF LedgerInv, RevokesOK, Issued, Dead, Full
  <1>3. Typed'
    BY DEF LedgerInv, LocksInv, Typed
  <1> QED BY <1>1, <1>2, <1>3 DEF LedgerInv, LocksInv

LEMMA StartRevokeLedger ==
    ASSUME LedgerInv, NEW r \in Revokes, NEW i \in Codes, StartRevoke(r, i) PROVE LedgerInv'
  <1> DEFINE to == IF Revocable(i) THEN "locking" ELSE "checking"
  <1>1. [at |-> to, code |-> i] \in Revoke
    BY DEF Revoke
  <1>2. /\ revoke' \in [Revokes -> Revoke] /\ revoke'[r].at = to /\ revoke'[r].code = i
        /\ \A q \in Revokes : q # r => revoke'[q] = revoke[q]
    BY <1>1 DEF LedgerInv, LocksInv, Typed, StartRevoke
  <1>3. LocksAreHeld'
    BY <1>2 DEF LedgerInv, LocksInv, LocksAreHeld, StartRevoke, Holding
  <1>4. lock' \in [Codes -> Joins \cup Revokes \cup {Deletion, None}]
    BY DEF LedgerInv, LocksInv, Typed, StartRevoke
  <1>5. Issued(i) /\ (to = "checking" => Dead(i))
    BY DEF StartRevoke, Issued, Dead, Revocable
  <1> QED BY <1>2, <1>3, <1>4, <1>5, RevokeMoves DEF StartRevoke

LEMMA LockRevokeLedger ==
    ASSUME LedgerInv, NEW r \in Revokes, LockRevoke(r) PROVE LedgerInv'
  <1> DEFINE i == revoke[r].code
  <1>1. /\ revoke[r] \in Revoke /\ revoke[r].at = "locking" /\ i \in Codes /\ Issued(i)
        /\ lock[i] = None
    BY DEF LedgerInv, LocksInv, Typed, RevokesOK, Issued, LockRevoke, Free
  <1>2. /\ Joins \cap Revokes = {} /\ Deletion \notin Joins \cup Revokes
        /\ None \notin Joins \cup Revokes
    BY InviteAssumption
  <1>3. lock \in [Codes -> Joins \cup Revokes \cup {Deletion, None}]
    BY DEF LedgerInv, LocksInv, Typed
  <1>4. CASE invite[i].there /\ ~invite[i].disabled /\ ~Full(i)
    <2>1. lock' = [lock EXCEPT ![i] = r] /\ revoke' = [revoke EXCEPT ![r] = [revoke[r] EXCEPT !.at = "holding"]]
      BY <1>1, <1>4 DEF LockRevoke, LedgerInv, LocksInv, Typed
    <2>2. /\ revoke' \in [Revokes -> Revoke]
          /\ revoke'[r].at = "holding" /\ revoke'[r].code = i
          /\ \A q \in Revokes : q # r => revoke'[q] = revoke[q]
      BY <1>1, <2>1 DEF LedgerInv, LocksInv, Typed, Revoke
    <2>3. LocksAreHeld'
      BY <1>1, <1>2, <1>3, <2>1, <2>2
      DEF LedgerInv, LocksInv, LocksAreHeld, LockRevoke, Holding
    <2>4. lock' \in [Codes -> Joins \cup Revokes \cup {Deletion, None}]
      BY <1>3, <2>1
    <2> QED BY <1>1, <1>4, <2>2, <2>3, <2>4, RevokeMoves DEF LockRevoke
  <1>5. CASE ~(invite[i].there /\ ~invite[i].disabled /\ ~Full(i))
    <2>1. lock' = lock /\ revoke' = [revoke EXCEPT ![r] = [revoke[r] EXCEPT !.at = "checking"]]
      BY <1>1, <1>5 DEF LockRevoke, LedgerInv, LocksInv, Typed
    <2>2. /\ revoke' \in [Revokes -> Revoke]
          /\ revoke'[r].at = "checking" /\ revoke'[r].code = i
          /\ \A q \in Revokes : q # r => revoke'[q] = revoke[q]
      BY <1>1, <2>1 DEF LedgerInv, LocksInv, Typed, Revoke
    <2>3. LocksAreHeld'
      BY <1>1, <2>1, <2>2 DEF LedgerInv, LocksInv, LocksAreHeld, LockRevoke, Holding
    <2>4. Dead(i)
      BY <1>1, <1>5 DEF Issued, Dead
    <2> QED BY <1>1, <1>3, <2>1, <2>2, <2>3, <2>4, RevokeMoves DEF LockRevoke
  <1> QED BY <1>4, <1>5

LEMMA CheckRevokeLedger ==
    ASSUME LedgerInv, NEW r \in Revokes, CheckRevoke(r) PROVE LedgerInv'
  <1> DEFINE i == revoke[r].code
             to == IF ~invite[i].there THEN "missing" ELSE "invalid"
  <1>1. revoke[r] \in Revoke /\ revoke[r].at = "checking" /\ i \in Codes /\ Dead(i)
    BY DEF LedgerInv, LocksInv, Typed, RevokesOK, Issued, CheckRevoke
  <1>2. invite[i].there => ~Revocable(i)
    BY <1>1 DEF LedgerInv, GoneIsEmpty, Dead, Revocable
  <1>3. revoke' = [revoke EXCEPT ![r] = [revoke[r] EXCEPT !.at = to]]
    BY <1>1, <1>2 DEF CheckRevoke, LedgerInv, LocksInv, Typed
  <1>4. /\ revoke' \in [Revokes -> Revoke] /\ revoke'[r].at = to
        /\ \A q \in Revokes : q # r => revoke'[q] = revoke[q]
    BY <1>1, <1>3 DEF LedgerInv, LocksInv, Typed, Revoke
  <1>5. LocksAreHeld'
    BY <1>1, <1>4 DEF LedgerInv, LocksInv, LocksAreHeld, CheckRevoke, Holding
  <1>6. lock' \in [Codes -> Joins \cup Revokes \cup {Deletion, None}]
    BY DEF LedgerInv, LocksInv, Typed, CheckRevoke
  <1> QED BY <1>4, <1>5, <1>6, RevokeMoves DEF CheckRevoke

LEMMA RevokeFailsLedger ==
    ASSUME LedgerInv, NEW r \in Revokes, RevokeErrs(r) \/ RevokeDeadlocks(r) PROVE LedgerInv'
  <1> DEFINE i == revoke[r].code
  <1>1. /\ RevokeFails(r) /\ revoke[r] \in Revoke
        /\ revoke[r].at \in {"locking", "holding", "checking"} /\ i \in Codes
    BY DEF LedgerInv, LocksInv, Typed, RevokesOK, Issued, RevokeErrs, RevokeDeadlocks
  <1>2. /\ revoke' \in [Revokes -> Revoke] /\ revoke'[r].at = "unavailable"
        /\ \A q \in Revokes : q # r => revoke'[q] = revoke[q]
    BY <1>1 DEF RevokeFails, LedgerInv, LocksInv, Typed, Revoke
  <1>3. /\ Joins \cap Revokes = {} /\ Deletion \notin Joins \cup Revokes
        /\ None \notin Joins \cup Revokes \cup {Deletion}
    BY InviteAssumption
  <1>4. lock \in [Codes -> Joins \cup Revokes \cup {Deletion, None}]
    BY DEF LedgerInv, LocksInv, Typed
  <1>5. lock' \in [Codes -> Joins \cup Revokes \cup {Deletion, None}]
    BY <1>1, <1>4 DEF RevokeFails, Release
  <1>6. LocksAreHeld'
    <2>1. CASE revoke[r].at = "holding"
      <3>1. lock[i] = r /\ lock' = [lock EXCEPT ![i] = None]
        BY <1>1, <2>1 DEF RevokeFails, Release, LedgerInv, LocksInv, LocksAreHeld
      <3>2. SUFFICES ASSUME NEW c \in Codes
            PROVE  /\ \A j \in Joins : lock'[c] = j <=> Holding(j) /\ join[j].code = c
                   /\ \A q \in Revokes :
                         lock'[c] = q <=> revoke'[q].at = "holding" /\ revoke'[q].code = c
                   /\ lock'[c] = Deletion => guild = "deleting"
        BY <1>1 DEF RevokeFails, LocksAreHeld, Holding
      <3>3. CASE c = i
        <4>1. lock'[c] = None
          BY <1>1, <1>4, <3>1, <3>3
        <4>2. \A j \in Joins : ~(Holding(j) /\ join[j].code = c)
          BY <1>1, <1>3, <3>1, <3>3 DEF LedgerInv, LocksInv, LocksAreHeld
        <4>3. \A q \in Revokes : ~(revoke'[q].at = "holding" /\ revoke'[q].code = c)
          BY <1>1, <1>2, <3>1, <3>3 DEF LedgerInv, LocksInv, LocksAreHeld
        <4> QED BY <1>3, <4>1, <4>2, <4>3
      <3>4. CASE c # i
        BY <1>2, <1>4, <3>1, <3>4 DEF LedgerInv, LocksInv, LocksAreHeld
      <3> QED BY <3>3, <3>4
    <2>2. CASE revoke[r].at # "holding"
      BY <1>1, <1>2, <2>2 DEF RevokeFails, LedgerInv, LocksInv, LocksAreHeld, Holding
    <2> QED BY <2>1, <2>2
  <1> QED BY <1>1, <1>2, <1>5, <1>6, RevokeMoves DEF RevokeFails

LEMMA DisabledType ==
    ASSUME NEW x \in Invite, NEW n \in Nat
    PROVE  LET y == [x EXCEPT !.disabled = TRUE, !.audits = n] IN
           /\ y \in Invite /\ y.disabled /\ y.audits = n
           /\ y.there = x.there /\ y.expired = x.expired
           /\ y.uses = x.uses /\ y.used = x.used
  BY DEF Invite

LEMMA CommitRevokeLedger ==
    ASSUME LedgerInv, NEW r \in Revokes, CommitRevoke(r) PROVE LedgerInv'
  <1> DEFINE i == revoke[r].code
  <1>1. /\ revoke[r] \in Revoke /\ revoke[r].at = "holding" /\ i \in Codes
        /\ invite[i] \in Invite /\ invite[i].there /\ ~invite[i].disabled /\ lock[i] = r
        /\ guild # "gone"
    BY DEF LedgerInv, LocksInv, Typed, LocksAreHeld, RevokesOK, Issued, CommitRevoke, GoneIsEmpty
  <1>2. invite' = [invite EXCEPT ![i] =
            [invite[i] EXCEPT !.disabled = TRUE, !.audits = invite[i].audits + 1]]
    BY <1>1 DEF CommitRevoke, LedgerInv, LocksInv, Typed
  <1>3. /\ invite' \in [Codes -> Invite]
        /\ \A k \in Codes : k # i => invite'[k] = invite[k]
        /\ invite'[i].disabled /\ invite'[i].audits = invite[i].audits + 1
        /\ invite'[i].there = invite[i].there /\ invite'[i].expired = invite[i].expired
        /\ invite'[i].uses = invite[i].uses /\ invite'[i].used = invite[i].used
    <2> DEFINE y == [invite[i] EXCEPT !.disabled = TRUE, !.audits = invite[i].audits + 1]
    <2>1. /\ y \in Invite /\ y.disabled /\ y.audits = invite[i].audits + 1
          /\ y.there = invite[i].there /\ y.expired = invite[i].expired
          /\ y.uses = invite[i].uses /\ y.used = invite[i].used
      <3>1. invite[i].audits + 1 \in Nat
        BY <1>1 DEF Invite
      <3> QED BY <1>1, <3>1, DisabledType
    <2> HIDE DEF y
    <2> QED BY <1>1, <1>2, <2>1 DEF LedgerInv, LocksInv, Typed, y
  <1>4. /\ revoke' \in [Revokes -> Revoke] /\ revoke'[r].at = "revoked"
        /\ \A q \in Revokes : q # r => revoke'[q] = revoke[q]
    BY <1>1 DEF CommitRevoke, LedgerInv, LocksInv, Typed, Revoke
  <1>5. /\ Joins \cap Revokes = {} /\ Deletion \notin Joins \cup Revokes
        /\ None \notin Joins \cup Revokes \cup {Deletion}
    BY InviteAssumption
  <1>6. /\ lock \in [Codes -> Joins \cup Revokes \cup {Deletion, None}]
        /\ lock' = [lock EXCEPT ![i] = None]
    BY DEF LedgerInv, LocksInv, Typed, CommitRevoke, Release
  <1>7. Typed'
    BY <1>3, <1>4, <1>6 DEF LedgerInv, LocksInv, Typed, CommitRevoke
  <1>8. LocksAreHeld'
    <2>1. SUFFICES ASSUME NEW c \in Codes
          PROVE  /\ \A j \in Joins : lock'[c] = j <=> Holding(j) /\ join[j].code = c
                 /\ \A q \in Revokes :
                       lock'[c] = q <=> revoke'[q].at = "holding" /\ revoke'[q].code = c
                 /\ lock'[c] = Deletion => guild = "deleting"
      BY DEF CommitRevoke, LocksAreHeld, Holding
    <2>2. CASE c = i
      <3>1. lock'[c] = None
        BY <1>1, <1>6, <2>2
      <3>2. \A j \in Joins : ~(Holding(j) /\ join[j].code = c)
        BY <1>1, <1>5, <2>2 DEF LedgerInv, LocksInv, LocksAreHeld
      <3>3. \A q \in Revokes : ~(revoke'[q].at = "holding" /\ revoke'[q].code = c)
        BY <1>1, <1>4, <2>2 DEF LedgerInv, LocksInv, LocksAreHeld
      <3> QED BY <1>5, <3>1, <3>2, <3>3
    <2>3. CASE c # i
      BY <1>4, <1>6, <2>3 DEF LedgerInv, LocksInv, LocksAreHeld
    <2> QED BY <2>2, <2>3
  <1>9. /\ \A k \in Codes : Dead(k) => Dead(k)'
        /\ \A k : Issued(k) => Issued(k)'
    BY <1>1, <1>3 DEF Dead, Issued, Full, CommitRevoke
  <1>10. \A j \in Joins : Holding(j) => join[j].code # i
    BY <1>1, <1>5 DEF LedgerInv, LocksInv, LocksAreHeld
  <1>11. JoinsOK'
    <2>1. SUFFICES ASSUME NEW j \in Joins
          PROVE  /\ join[j].at \notin {"unused", "over"} =>
                        join[j].by \in Users /\ Issued(join[j].code)'
                 /\ join[j].at = "locking" =>
                        /\ join[j].used => join[j].member
                        /\ join[j].member => join[j].by \in members \/ guild = "gone"
                        /\ join[j].expired => Dead(join[j].code)'
                 /\ Holding(j) =>
                        LET c == join[j].code IN
                        /\ invite'[c].there /\ ~invite'[c].disabled
                        /\ invite'[c].uses < MaxUses[c] /\ ~join[j].used
      BY DEF CommitRevoke, JoinsOK, Waits, Holds, Holding, Issued, Dead, Full
    <2>2. join[j].at \notin {"unused", "over"} =>
              join[j].by \in Users /\ Issued(join[j].code) /\ join[j].code \in Codes
      BY DEF LedgerInv, JoinsOK, Issued
    <2>3. join[j].at = "locking" =>
              /\ join[j].used => join[j].member
              /\ join[j].member => join[j].by \in members \/ guild = "gone"
              /\ join[j].expired => Dead(join[j].code)'
      BY <1>9, <2>2 DEF LedgerInv, JoinsOK, Waits, CommitRevoke
    <2>4. Holding(j) => join[j].code \in Codes /\ join[j].code # i
      BY <1>10, <2>2 DEF Holding
    <2>5. \A k \in Codes : Issued(k) => Issued(k)'
      BY <1>9
    <2>6. join[j].at \notin {"unused", "over"} => Issued(join[j].code)'
      BY <2>2, <2>5 DEF CommitRevoke
    <2> QED BY <1>3, <2>2, <2>3, <2>4, <2>6 DEF LedgerInv, JoinsOK, Holds
  <1>12. RevokesOK'
    <2>1. SUFFICES ASSUME NEW q \in Revokes, q # r
          PROVE  /\ revoke[q].at \in {"locking", "holding", "checking"} =>
                        Issued(revoke[q].code)'
                 /\ revoke[q].at = "holding" =>
                        invite'[revoke[q].code].there /\ ~invite'[revoke[q].code].disabled
                 /\ revoke[q].at = "checking" => Dead(revoke[q].code)'
                 /\ revoke[q].at # "unexplained"
      BY <1>4 DEF RevokesOK, Issued, Dead, Full
    <2>2. revoke[q].at \in {"locking", "holding", "checking"} =>
              Issued(revoke[q].code) /\ revoke[q].code \in Codes
      BY DEF LedgerInv, RevokesOK, Issued
    <2>3. revoke[q].at = "holding" => revoke[q].code # i
      BY <1>1, <2>1 DEF LedgerInv, LocksInv, LocksAreHeld
    <2>4. revoke[q].at \in {"locking", "holding", "checking"} => Issued(revoke[q].code)'
      BY <1>4, <1>9, <2>1, <2>2
    <2>5. revoke[q].at = "checking" => Dead(revoke[q].code)'
      BY <1>4, <1>9, <2>1, <2>2 DEF LedgerInv, RevokesOK
    <2> QED BY <1>3, <2>2, <2>3, <2>4, <2>5 DEF LedgerInv, RevokesOK
  <1>13. InsertsOK' /\ GoneIsEmpty'
    BY <1>1 DEF LedgerInv, InsertsOK, GoneIsEmpty, CommitRevoke
  <1>14. LedgersAgree'
    <2>1. invite'[i].audits = 1
      BY <1>1, <1>3 DEF LedgerInv, LedgersAgree
    <2> QED BY <1>1, <1>3, <2>1 DEF LedgerInv, LedgersAgree
  <1>15. OneUse'
    <2>1. \A k \in Codes : invite'[k].used = invite[k].used
      BY <1>3
    <2> QED BY <2>1 DEF LedgerInv, OneUse, CommitRevoke
  <1> QED BY <1>7, <1>8, <1>11, <1>12, <1>13, <1>14, <1>15 DEF LedgerInv, LocksInv

LEMMA DeleteLedger ==
    ASSUME LedgerInv, StartDelete \/ (\E i \in Codes : DropInvite(i)) \/ AbortDelete
    PROVE  LedgerInv'
  <1>1. /\ guild # "gone" /\ guild' \in {"alive", "deleting", "kept"}
        /\ UNCHANGED <<members, invite, join, revoke, tab>>
    BY DEF StartDelete, DropInvite, AbortDelete
  <1>2. /\ lock \in [Codes -> Joins \cup Revokes \cup {Deletion, None}]
        /\ Deletion \notin Joins \cup Revokes /\ None \notin Joins \cup Revokes \cup {Deletion}
    BY InviteAssumption DEF LedgerInv, LocksInv, Typed
  <1>3. lock' \in [Codes -> Joins \cup Revokes \cup {Deletion, None}] /\ LocksAreHeld'
    <2>1. CASE StartDelete
      BY <1>2, <2>1 DEF StartDelete, LedgerInv, LocksInv, LocksAreHeld, Holding
    <2>2. CASE \E i \in Codes : DropInvite(i)
      <3>1. PICK i \in Codes : DropInvite(i)
        BY <2>2
      <3> QED BY <1>2, <3>1 DEF DropInvite, Free, LedgerInv, LocksInv, LocksAreHeld, Holding
    <2>3. CASE AbortDelete
      <3>1. /\ lock' \in [Codes -> Joins \cup Revokes \cup {Deletion, None}]
            /\ \A c \in Codes : lock'[c] = IF lock[c] = Deletion THEN None ELSE lock[c]
        BY <1>2, <2>3 DEF AbortDelete
      <3> QED BY <1>2, <2>3, <3>1 DEF AbortDelete, LedgerInv, LocksInv, LocksAreHeld, Holding
    <2> QED BY <2>1, <2>2, <2>3
  <1>4. Typed'
    BY <1>1, <1>3 DEF LedgerInv, LocksInv, Typed
  <1>5. JoinsOK'
    BY <1>1 DEF LedgerInv, JoinsOK, Issued, Waits, Holds, Holding, Dead, Full
  <1>6. RevokesOK'
    BY <1>1 DEF LedgerInv, RevokesOK, Issued, Dead, Full
  <1>7. InsertsOK' /\ GoneIsEmpty' /\ LedgersAgree' /\ OneUse'
    BY <1>1 DEF LedgerInv, InsertsOK, GoneIsEmpty, LedgersAgree, OneUse
  <1> QED BY <1>3, <1>4, <1>5, <1>6, <1>7 DEF LedgerInv, LocksInv

(* Whoever holds a row keeps the deletion from ending.                      *)
LEMMA FinishLedger == ASSUME LedgerInv, FinishDelete PROVE LedgerInv'
  <1>1. /\ Deletion \notin Joins \cup Revokes /\ None \notin Joins \cup Revokes \cup {Deletion}
        /\ \A i \in Codes : MaxUses[i] \in Nat
    BY InviteAssumption
  <1>2. \A j \in Joins : ~Holding(j)
    <2>1. \A j \in Joins : Holding(j) => join[j].code \in Codes /\ lock[join[j].code] = j
      BY DEF LedgerInv, LocksInv, LocksAreHeld, JoinsOK, Holding, Issued
    <2> QED BY <1>1, <2>1 DEF FinishDelete
  <1>3. Absent \in Invite /\ ~Absent.there /\ ~Absent.disabled /\ Absent.used = {}
        /\ Absent.uses = 0 /\ Absent.audits = 0
    BY DEF Absent, Invite
  <1>4. /\ guild' = "gone" /\ members' = {} /\ UNCHANGED <<join, revoke, tab>>
        /\ invite' \in [Codes -> Invite] /\ \A i \in Codes : invite'[i] = Absent
        /\ lock' \in [Codes -> Joins \cup Revokes \cup {Deletion, None}]
        /\ \A i \in Codes : lock'[i] = None
    BY <1>3 DEF FinishDelete
  <1>5. Typed'
    BY <1>4 DEF LedgerInv, LocksInv, Typed
  <1>6. \A r \in Revokes : revoke[r].at # "holding"
    BY DEF FinishDelete, Guarding
  <1>7. LocksAreHeld'
    BY <1>1, <1>2, <1>4, <1>6 DEF LocksAreHeld, Holding
  <1>8. GoneIsEmpty' /\ LedgersAgree'
    <2>1. Cardinality({}) = 0
      BY FS_EmptySet
    <2>2. GoneIsEmpty'
      BY <1>3, <1>4 DEF GoneIsEmpty
    <2>3. LedgersAgree'
      BY <1>1, <1>3, <1>4, <2>1 DEF LedgersAgree
    <2> QED BY <2>2, <2>3
  <1>9. JoinsOK'
    BY <1>2, <1>4 DEF LedgerInv, JoinsOK, Issued, Waits, Holding, Dead
  <1>10. InsertsOK'
    BY <1>2, <1>4 DEF InsertsOK, Holding
  <1>11. RevokesOK'
    BY <1>4, <1>6 DEF LedgerInv, RevokesOK, Issued, Dead
  <1>12. OneUse'
    BY <1>3, <1>4 DEF OneUse
  <1> QED BY <1>5, <1>7, <1>8, <1>9, <1>10, <1>11, <1>12 DEF LedgerInv, LocksInv

-----------------------------------------------------------------------------
(* Every step keeps the ledgers, and what is true of an invite for good.    *)

LEMMA LedgerStep == ASSUME InviteInv, [InviteNext]_inviteVars PROVE LedgerInv'
  <1>1. LedgerInv
    BY DEF InviteInv
  <1>2. ASSUME NEW i \in Codes, CreateInvite(i) \/ Expire(i) PROVE LedgerInv'
    BY <1>1, <1>2, IssueLedger
  <1>3. ASSUME NEW t \in Tabs,
               \/ \E u \in Users, i \in Codes : Visit(t, u, i)
               \/ Load(t) \/ Retry(t) \/ \E j \in Joins : Attempt(t, j)
        PROVE  LedgerInv'
    BY <1>1, <1>3, BrowseLedger, AttemptLedger
  <1>4. ASSUME NEW j \in Joins, Disconnect(j) PROVE LedgerInv'
    BY <1>1, <1>4, DisconnectLedger
  <1>5. ASSUME NEW j \in Joins, Refuse(j) \/ JoinStep(j) \/ JoinErrs(j) PROVE LedgerInv'
    <2>1. Ends(j) \/ Starts(j) \/ Takes(j) \/ InsertMember(j) \/ Admits(j)
      BY <1>1, <1>5, JoinCases
    <2> QED BY <1>1, <2>1, EndsLedger, StartsLedger, TakesLedger, InsertMemberLedger,
              AdmitsLedger
  <1>6. ASSUME NEW r \in Revokes,
               (\E i \in Codes : StartRevoke(r, i)) \/ RevokeStep(r) \/ RevokeErrs(r)
        PROVE  LedgerInv'
    BY <1>1, <1>6, StartRevokeLedger, LockRevokeLedger, CommitRevokeLedger,
       CheckRevokeLedger, RevokeFailsLedger DEF RevokeStep
  <1>7. ASSUME StartDelete \/ DeleteStep \/ AbortDelete PROVE LedgerInv'
    BY <1>1, <1>7, DeleteLedger, FinishLedger DEF DeleteStep
  <1>8. ASSUME UNCHANGED inviteVars PROVE LedgerInv'
    BY <1>1, <1>8, PageLedger DEF inviteVars, LedgerInv, LocksInv, Typed
  <1> QED BY <1>2, <1>3, <1>4, <1>5, <1>6, <1>7, <1>8 DEF InviteNext

(* What a step may do to an invite that stays.                              *)
Keeps(i) ==
    /\ invite[i].there => invite'[i].there
    /\ invite[i].disabled => invite'[i].disabled /\ invite'[i].used = invite[i].used
    /\ invite[i].expired => invite'[i].expired
    /\ invite[i].uses <= invite'[i].uses

Ages ==
    /\ guild = "gone" => guild' = "gone"
    /\ guild' # "gone" => members \subseteq members' /\ \A i \in Codes : Keeps(i)

LEMMA SameAges == ASSUME LedgerInv, UNCHANGED <<members, invite>>,
                         guild = "gone" => guild' = "gone"
                  PROVE  Ages
  BY DEF Ages, Keeps, LedgerInv, LocksInv, Typed, Invite

LEMMA AgesStep == ASSUME InviteInv, [InviteNext]_inviteVars PROVE Ages
  <1>1. /\ LedgerInv /\ invite \in [Codes -> Invite]
        /\ \A i \in Codes : invite[i].uses \in Nat
    BY DEF InviteInv, LedgerInv, LocksInv, Typed, Invite
  <1>2. ASSUME NEW i \in Codes, CreateInvite(i) PROVE Ages
    <2>1. invite' = [invite EXCEPT ![i] = [invite[i] EXCEPT !.there = TRUE]]
      BY <1>1, <1>2 DEF CreateInvite
    <2>2. \A k \in Codes : Keeps(k)
      BY <1>1, <2>1 DEF Keeps, Invite
    <2> QED BY <1>2, <2>2 DEF CreateInvite, Ages
  <1>3. ASSUME NEW i \in Codes, Expire(i) PROVE Ages
    <2>1. invite' = [invite EXCEPT ![i] = [invite[i] EXCEPT !.expired = TRUE]]
      BY <1>1, <1>3 DEF Expire
    <2>2. \A k \in Codes : Keeps(k)
      BY <1>1, <2>1 DEF Keeps, Invite
    <2> QED BY <1>3, <2>2 DEF Expire, Ages
  <1>4. ASSUME NEW t \in Tabs,
               \/ \E u \in Users, i \in Codes : Visit(t, u, i)
               \/ Load(t) \/ Retry(t) \/ \E j \in Joins : Attempt(t, j)
        PROVE  Ages
    BY <1>1, <1>4, SameAges DEF Visit, Load, Retry, Attempt
  <1>5. ASSUME NEW j \in Joins, Disconnect(j) PROVE Ages
    BY <1>1, <1>5, SameAges DEF Disconnect
  <1>6. ASSUME NEW j \in Joins, Refuse(j) \/ JoinStep(j) \/ JoinErrs(j) PROVE Ages
    <2>1. Ends(j) \/ Starts(j) \/ Takes(j) \/ InsertMember(j) \/ Admits(j)
      BY <1>1, <1>6, JoinCases
    <2>2. CASE Ends(j) \/ Starts(j) \/ Takes(j) \/ InsertMember(j)
      BY <1>1, <2>2, SameAges DEF Ends, Starts, Takes, InsertMember
    <2>3. CASE Admits(j)
      <3>1. \A k \in Codes : Keeps(k)
        BY <1>1, <2>3, AdmitsInvite DEF Keeps, Holds
      <3> QED BY <2>3, <3>1 DEF Admits, Ages
    <2> QED BY <2>1, <2>2, <2>3
  <1>7. ASSUME NEW r \in Revokes, CommitRevoke(r) PROVE Ages
    <2>1. invite' = [invite EXCEPT ![revoke[r].code].disabled = TRUE,
                                   ![revoke[r].code].audits = @ + 1]
      BY <1>7 DEF CommitRevoke
    <2>2. \A k \in Codes : Keeps(k)
      BY <1>1, <2>1 DEF Keeps, Invite
    <2> QED BY <1>7, <2>2 DEF CommitRevoke, Ages
  <1>8. ASSUME NEW r \in Revokes,
               \/ \E i \in Codes : StartRevoke(r, i)
               \/ LockRevoke(r) \/ CheckRevoke(r) \/ RevokeDeadlocks(r) \/ RevokeErrs(r)
        PROVE  Ages
    BY <1>1, <1>8, SameAges
    DEF StartRevoke, LockRevoke, CheckRevoke, RevokeDeadlocks, RevokeErrs, RevokeFails
  <1>9. ASSUME StartDelete \/ (\E i \in Codes : DropInvite(i)) \/ AbortDelete PROVE Ages
    BY <1>1, <1>9, SameAges DEF StartDelete, DropInvite, AbortDelete
  <1>10. ASSUME FinishDelete PROVE Ages
    BY <1>10 DEF FinishDelete, Ages
  <1>11. ASSUME UNCHANGED inviteVars PROVE Ages
    BY <1>1, <1>11, SameAges DEF inviteVars
  <1> QED BY <1>2, <1>3, <1>4, <1>5, <1>6, <1>7, <1>8, <1>9, <1>10, <1>11
       DEF InviteNext, RevokeStep, DeleteStep

-----------------------------------------------------------------------------
(* Requests and their pages.                                               *)

LEMMA AgesFacts ==
    ASSUME LedgerInv, LedgerInv', Ages
    PROVE  /\ \A i \in Codes : (Issued(i) => Issued(i)') /\ (Dead(i) => Dead(i)')
           /\ \A u : u \in members \/ guild = "gone" => u \in members' \/ guild' = "gone"
  <1>1. \A i \in Codes : /\ invite[i].uses \in Nat /\ invite'[i].uses \in Nat
                         /\ MaxUses[i] \in Nat
    BY InviteAssumption DEF LedgerInv, LocksInv, Typed, Invite
  <1> QED BY <1>1 DEF Ages, Keeps, Issued, Dead, Full

LEMMA PagesStay ==
    ASSUME InviteInv, LedgerInv', Ages, UNCHANGED tab
    PROVE  PagesOK'
  <1>1. SUFFICES ASSUME NEW t \in Tabs PROVE PageOK(t)'
    BY DEF PagesOK
  <1>2. PageOK(t)
    BY DEF InviteInv, PagesOK
  <1>3. LedgerInv
    BY DEF InviteInv
  <1>4. tab'[t] = tab[t]
    OBVIOUS
  <1>5. /\ tab[t].code \in Codes => (Issued(tab[t].code) => Issued(tab[t].code)')
        /\ tab[t].code \in Codes => (Dead(tab[t].code) => Dead(tab[t].code)')
    BY <1>3, AgesFacts
  <1>6. tab[t].content = "valid" => tab[t].code \in Codes
    BY <1>2 DEF PageOK, Issued
  <1> QED BY <1>2, <1>3, <1>4, <1>5, <1>6, AgesFacts DEF PageOK

LEMMA OnePageMoves ==
    ASSUME InviteInv, LedgerInv', Ages, NEW t \in Tabs, PageOK(t)',
           \A s \in Tabs : s # t => tab'[s] = tab[s]
    PROVE  PagesOK'
  <1>1. SUFFICES ASSUME NEW s \in Tabs, s # t PROVE PageOK(s)'
    BY DEF PagesOK
  <1>2. PageOK(s)
    BY DEF InviteInv, PagesOK
  <1>3. LedgerInv
    BY DEF InviteInv
  <1>4. tab'[s] = tab[s]
    BY <1>1
  <1>5. \A i \in Codes : (Issued(i) => Issued(i)') /\ (Dead(i) => Dead(i)')
    BY <1>3, AgesFacts
  <1>6. tab[s].content = "valid" => Issued(tab[s].code)'
    BY <1>2, <1>4, <1>5 DEF PageOK, Issued
  <1>7. tab[s].refused => tab[s].code \in Codes /\ Dead(tab[s].code)'
    BY <1>2, <1>4, <1>5 DEF PageOK
  <1>8. tab[s].at = "guild" => tab[s].by \in members' \/ guild' = "gone"
    BY <1>2, <1>3, AgesFacts DEF PageOK
  <1> QED BY <1>2, <1>4, <1>6, <1>7, <1>8 DEF PageOK

(* The rest of a request may change while its page, visitor and invite stay. *)
LEMMA TabsStay ==
    ASSUME InviteInv, UNCHANGED tab,
           \A k \in Joins : /\ join'[k].tab = join[k].tab /\ join'[k].by = join[k].by
                            /\ join'[k].code = join[k].code
    PROVE  TabsOK'
  BY DEF InviteInv, TabsOK

LEMMA JoinKeepsPage ==
    ASSUME LedgerInv, NEW j \in Joins, Starts(j) \/ Takes(j) \/ InsertMember(j)
    PROVE  /\ UNCHANGED tab
           /\ \A k \in Joins : /\ join'[k].tab = join[k].tab /\ join'[k].by = join[k].by
                               /\ join'[k].code = join[k].code
  <1>1. join \in [Joins -> Join] /\ join[j] \in Join
    BY DEF LedgerInv, LocksInv, Typed
  <1>2. CASE Starts(j)
    <2> DEFINE y == [join[j] EXCEPT !.at = "locking", !.member = join[j].by \in members,
                            !.used = join[j].by \in invite[join[j].code].used,
                            !.expired = invite[join[j].code].expired]
    <2>1. join' = [join EXCEPT ![j] = y]
      BY <1>2 DEF Starts
    <2>2. y.tab = join[j].tab /\ y.by = join[j].by /\ y.code = join[j].code
      BY <1>1 DEF Join
    <2> HIDE DEF y
    <2> QED BY <1>1, <1>2, <2>1, <2>2 DEF Starts
  <1>3. CASE Takes(j)
    BY <1>1, <1>3 DEF Takes, Join
  <1>4. CASE InsertMember(j)
    BY <1>1, <1>4 DEF InsertMember, Join
  <1> QED BY <1>2, <1>3, <1>4

(* An answer reaches the page that still waits for it, if there is one.     *)
LEMMA AnswerReachesPage ==
    ASSUME InviteInv, LedgerInv', Ages, NEW j \in Joins, NEW answer \in Answers,
           End(j, answer),
           answer = "guild" => join[j].by \in members' \/ guild' = "gone",
           answer = "refused" => \E i \in Codes : i = join[j].code /\ Dead(i)'
    PROVE  TabsOK' /\ PagesOK'
  <1>1. /\ LedgerInv /\ Typed
    BY DEF InviteInv, LedgerInv, LocksInv
  <1>2. /\ join'[j].tab = None /\ \A k \in Joins : k # j => join'[k] = join[k]
        /\ \A t \in Tabs : t # join[j].tab => tab'[t] = tab[t]
        /\ \A t \in Tabs : t = join[j].tab => tab'[t] = Told(tab[t], answer)
        /\ tab' \in [Tabs -> Page]
    BY <1>1, EndEffect
  <1>3. \A k \in Joins : join[k].tab \in Tabs \cup {None}
    BY <1>1 DEF Typed, Join
  <1>4. TabsOK'
    <2>1. SUFFICES ASSUME NEW k \in Joins, join'[k].tab # None
          PROVE  /\ tab'[join'[k].tab].at = "joining" /\ tab'[join'[k].tab].by = join'[k].by
                 /\ tab'[join'[k].tab].code = join'[k].code
                 /\ \A l \in Joins : join'[l].tab = join'[k].tab => l = k
      BY DEF TabsOK
    <2>2. k # j /\ join'[k] = join[k] /\ join[k].tab # None /\ join[k].tab \in Tabs
      BY <1>2, <1>3, <2>1
    <2>3. join[k].tab # join[j].tab
      BY <2>2 DEF InviteInv, TabsOK
    <2> QED BY <1>2, <2>2, <2>3 DEF InviteInv, TabsOK
  <1>5. CASE join[j].tab = None
    <2>1. None \notin Tabs
      BY InviteAssumption
    <2>2. tab' = tab
      BY <1>1, <1>2, <1>5, <2>1 DEF Typed
    <2> QED BY <1>4, <2>2, PagesStay
  <1>6. CASE join[j].tab # None
    <2>1. PICK t \in Tabs : t = join[j].tab
      BY <1>3, <1>6
    <2>2. /\ tab[t] \in Page /\ PageOK(t) /\ tab[t].at = "joining"
          /\ tab[t].by = join[j].by /\ tab[t].code = join[j].code
      BY <1>1, <1>6, <2>1 DEF Typed, InviteInv, PagesOK, TabsOK
    <2>3. /\ tab'[t].by = tab[t].by /\ tab'[t].code = tab[t].code
          /\ tab'[t].content = tab[t].content
          /\ tab'[t].at = IF answer = "guild" THEN "guild"
                          ELSE IF answer = "notice" THEN "shown" ELSE "loading"
          /\ tab'[t].refused = (tab[t].refused \/ answer = "refused")
      BY <1>2, <2>1, <2>2, ToldPage
    <2>4. PICK i \in Codes : i = tab[t].code /\ Issued(i) /\ Issued(i)'
      <3>1. tab[t].code \in Codes /\ Issued(tab[t].code)
        BY <2>2 DEF PageOK, Issued
      <3>2. PICK i \in Codes : i = tab[t].code /\ Issued(i)
        BY <3>1
      <3> QED BY <1>1, <3>2, AgesFacts
    <2>5. /\ tab[t].by \in Users /\ tab[t].content = "valid" /\ ~tab[t].refused
      BY <2>2 DEF PageOK
    <2>6. tab'[t].refused => answer = "refused"
      BY <2>3, <2>5
    <2>7. answer = "refused" => Dead(i)'
      BY <2>2, <2>4
    <2>8. tab'[t].code = i /\ tab'[t].at \in {"guild", "shown", "loading"}
      BY <2>3, <2>4
    <2>9. tab'[t].refused => tab'[t].at # "shown"
      BY <2>3, <2>6
    <2>10. tab'[t].at = "guild" => tab'[t].by \in members' \/ guild' = "gone"
      BY <2>2, <2>3
    <2>11. tab'[t].content = "valid" => Issued(tab[t].code)'
      BY <2>4, <2>8
    <2>12. tab'[t].refused => tab'[t].code \in Codes /\ Dead(tab[t].code)'
      BY <2>6, <2>7, <2>8
    <2>13. PageOK(t)'
      BY <2>3, <2>5, <2>8, <2>9, <2>10, <2>11, <2>12 DEF PageOK
    <2> QED BY <1>2, <1>4, <2>1, <2>13, OnePageMoves
  <1> QED BY <1>5, <1>6

LEMMA BrowsePages ==
    ASSUME InviteInv, LedgerInv', Ages, NEW t \in Tabs,
           (\E u \in Users, i \in Codes : Visit(t, u, i)) \/ Load(t) \/ Retry(t)
    PROVE  TabsOK' /\ PagesOK'
  <1>1. /\ LedgerInv /\ Typed /\ tab \in [Tabs -> Page] /\ tab[t] \in Page /\ PageOK(t)
    BY DEF InviteInv, LedgerInv, LocksInv, Typed, PagesOK
  <1>2. UNCHANGED <<guild, members, invite, join>> /\ tab[t].at # "joining"
    BY DEF Visit, Load, Retry
  <1>3. (\A s \in Tabs : s # t => tab'[s] = tab[s]) /\ PageOK(t)'
    <2>1. CASE \E u \in Users, i \in Codes : Visit(t, u, i)
      <3>1. PICK u \in Users, i \in Codes : Visit(t, u, i)
        BY <2>1
      <3> DEFINE y == [Away EXCEPT !.at = "loading", !.by = u, !.code = i]
      <3>2. /\ y.at = "loading" /\ y.by = u /\ y.code = i
            /\ y.content = "unavailable" /\ ~y.refused
        BY DEF Away
      <3>3. tab' = [tab EXCEPT ![t] = y]
        BY <3>1 DEF Visit
      <3> HIDE DEF y
      <3> QED BY <1>1, <3>2, <3>3 DEF PageOK
    <2>2. CASE Load(t)
      <3>1. PICK content \in {Verify(tab[t].code), "unavailable"} :
                tab' = [tab EXCEPT ![t] = [tab[t] EXCEPT !.at = "shown", !.content = content]]
        BY <1>1, <2>2, Zenon DEF Load
      <3> DEFINE y == [tab[t] EXCEPT !.at = "shown", !.content = content]
      <3>2. /\ y.at = "shown" /\ y.by = tab[t].by /\ y.code = tab[t].code
            /\ y.content = content /\ y.refused = tab[t].refused
        BY <1>1 DEF Page
      <3>3. tab[t].by \in Users /\ tab[t].code \in Codes
        BY <1>1, <2>2 DEF Load, PageOK
      <3>4. content = "valid" => Issued(tab[t].code) /\ ~tab[t].refused
        <4>1. content = "valid" =>
                  /\ invite[tab[t].code].there /\ ~invite[tab[t].code].disabled
                  /\ ~Full(tab[t].code) /\ ~invite[tab[t].code].expired
          BY DEF Verify
        <4>2. content = "valid" => guild # "gone"
          BY <1>1, <3>3, <4>1 DEF LedgerInv, GoneIsEmpty
        <4> QED BY <1>1, <3>3, <4>1, <4>2 DEF Issued, PageOK, Dead
      <3>5. tab'[t] = y /\ \A s \in Tabs : s # t => tab'[s] = tab[s]
        BY <1>1, <3>1
      <3> HIDE DEF y
      <3>6. tab[t].refused => Dead(tab[t].code)
        BY <1>1 DEF PageOK
      <3> QED BY <1>2, <3>2, <3>3, <3>4, <3>5, <3>6 DEF PageOK, Issued, Dead, Full
    <2>3. CASE Retry(t)
      <3>1. tab' = [tab EXCEPT ![t] = [tab[t] EXCEPT !.at = "loading"]]
        BY <1>1, <2>3 DEF Retry
      <3>2. /\ tab'[t].at = "loading" /\ tab'[t].by = tab[t].by
            /\ tab'[t].code = tab[t].code /\ tab'[t].content = "unavailable"
            /\ tab'[t].refused = tab[t].refused
            /\ \A s \in Tabs : s # t => tab'[s] = tab[s]
        BY <1>1, <2>3, <3>1 DEF Page, Retry
      <3> QED BY <1>1, <1>2, <2>3, <3>2 DEF PageOK, Retry, Dead, Full
    <2> QED BY <2>1, <2>2, <2>3
  <1>4. PagesOK'
    BY <1>3, OnePageMoves
  <1>5. \A k \in Joins : join[k].tab # None => join[k].tab \in Tabs /\ join[k].tab # t
    BY <1>1, <1>2 DEF Typed, Join, InviteInv, TabsOK
  <1>6. TabsOK'
    BY <1>2, <1>3, <1>5 DEF InviteInv, TabsOK
  <1> QED BY <1>4, <1>6

LEMMA AttemptPages ==
    ASSUME InviteInv, LedgerInv', Ages, NEW t \in Tabs, NEW j \in Joins, Attempt(t, j)
    PROVE  TabsOK' /\ PagesOK'
  <1>1. /\ Typed /\ tab[t] \in Page /\ PageOK(t) /\ None \notin Tabs
        /\ \A k \in Joins : join[k].tab \in Tabs \cup {None}
    BY InviteAssumption DEF InviteInv, LedgerInv, LocksInv, Typed, PagesOK, Join
  <1>2. /\ tab[t].at = "shown" /\ tab[t].content = "valid"
        /\ UNCHANGED <<guild, members, invite>>
    BY DEF Attempt
  <1>3. /\ join'[j].tab = t /\ join'[j].by = tab[t].by /\ join'[j].code = tab[t].code
        /\ \A k \in Joins : k # j => join'[k] = join[k]
        /\ tab'[t] = [tab[t] EXCEPT !.at = "joining"]
        /\ \A s \in Tabs : s # t => tab'[s] = tab[s]
    BY AttemptLedger
  <1>4. /\ tab'[t].at = "joining" /\ tab'[t].by = tab[t].by /\ tab'[t].code = tab[t].code
        /\ tab'[t].content = "valid" /\ tab'[t].refused = tab[t].refused
    BY <1>1, <1>2, <1>3 DEF Page
  <1>5. PageOK(t)'
    BY <1>1, <1>2, <1>4 DEF PageOK, Issued
  <1>6. \A k \in Joins : join[k].tab # None => join[k].tab # t
    BY <1>2 DEF InviteInv, TabsOK
  <1>7. TabsOK'
    <2>1. SUFFICES ASSUME NEW k \in Joins, join'[k].tab # None
          PROVE  /\ tab'[join'[k].tab].at = "joining" /\ tab'[join'[k].tab].by = join'[k].by
                 /\ tab'[join'[k].tab].code = join'[k].code
                 /\ \A l \in Joins : join'[l].tab = join'[k].tab => l = k
      BY DEF TabsOK
    <2>2. CASE k = j
      <3>1. \A l \in Joins : join'[l].tab = t => l = j
        BY <1>1, <1>3, <1>6
      <3>2. join'[k].tab = t /\ join'[k].by = tab[t].by /\ join'[k].code = tab[t].code
        BY <1>3, <2>2
      <3> QED BY <1>4, <2>2, <3>1, <3>2
    <2>3. CASE k # j
      BY <1>1, <1>3, <1>6, <2>1, <2>3 DEF InviteInv, TabsOK
    <2> QED BY <2>2, <2>3
  <1> QED BY <1>3, <1>5, <1>7, OnePageMoves

LEMMA DisconnectPages ==
    ASSUME InviteInv, LedgerInv', Ages, NEW j \in Joins, Disconnect(j)
    PROVE  TabsOK' /\ PagesOK'
  <1>1. /\ LedgerInv /\ Typed /\ \A k \in Joins : join[k].tab \in Tabs \cup {None}
    BY DEF InviteInv, LedgerInv, LocksInv, Typed, Join
  <1>2. PICK t \in Tabs : t = join[j].tab /\ t # None
    BY <1>1, DisconnectLedger DEF Disconnect
  <1>3. /\ join'[j].tab = None /\ \A k \in Joins : k # j => join'[k] = join[k]
        /\ tab'[t] = [tab[t] EXCEPT !.at = "shown"]
        /\ \A s \in Tabs : s # t => tab'[s] = tab[s]
    BY <1>1, <1>2, DisconnectLedger
  <1>4. tab[t] \in Page /\ PageOK(t) /\ tab[t].at = "joining"
    BY <1>1, <1>2 DEF Typed, InviteInv, PagesOK, TabsOK
  <1>5. /\ tab'[t].at = "shown" /\ tab'[t].by = tab[t].by /\ tab'[t].code = tab[t].code
        /\ tab'[t].content = tab[t].content /\ ~tab'[t].refused
        /\ UNCHANGED <<guild, members, invite>>
    BY <1>3, <1>4 DEF Page, PageOK, Disconnect
  <1>6. PageOK(t)'
    BY <1>4, <1>5 DEF PageOK, Issued
  <1>7. TabsOK'
    <2>1. SUFFICES ASSUME NEW k \in Joins, join'[k].tab # None
          PROVE  /\ tab'[join'[k].tab].at = "joining" /\ tab'[join'[k].tab].by = join'[k].by
                 /\ tab'[join'[k].tab].code = join'[k].code
                 /\ \A l \in Joins : join'[l].tab = join'[k].tab => l = k
      BY DEF TabsOK
    <2>2. k # j /\ join'[k] = join[k] /\ join[k].tab \in Tabs /\ join[k].tab # None
      BY <1>1, <1>3, <2>1
    <2>3. join[k].tab # t
      BY <1>2, <2>2 DEF InviteInv, TabsOK
    <2> QED BY <1>3, <2>2, <2>3 DEF InviteInv, TabsOK
  <1> QED BY <1>3, <1>6, <1>7, OnePageMoves

-----------------------------------------------------------------------------
(* The invariant.                                                          *)

LEMMA PagesStep ==
    ASSUME InviteInv, LedgerInv', Ages, [InviteNext]_inviteVars PROVE TabsOK' /\ PagesOK'
  <1>1. LedgerInv
    BY DEF InviteInv
  <1>2. ASSUME UNCHANGED <<join, tab>> PROVE TabsOK' /\ PagesOK'
    <2>1. TabsOK'
      BY <1>2, TabsStay
    <2> QED BY <1>2, <2>1, PagesStay
  <1>3. ASSUME NEW t \in Tabs,
               \/ \E u \in Users, i \in Codes : Visit(t, u, i)
               \/ Load(t) \/ Retry(t) \/ \E j \in Joins : Attempt(t, j)
        PROVE  TabsOK' /\ PagesOK'
    BY <1>3, BrowsePages, AttemptPages
  <1>4. ASSUME NEW j \in Joins, Disconnect(j) PROVE TabsOK' /\ PagesOK'
    BY <1>4, DisconnectPages
  <1>5. ASSUME NEW j \in Joins, Refuse(j) \/ JoinStep(j) \/ JoinErrs(j)
        PROVE  TabsOK' /\ PagesOK'
    <2>1. Ends(j) \/ Starts(j) \/ Takes(j) \/ InsertMember(j) \/ Admits(j)
      BY <1>1, <1>5, JoinCases
    <2>2. CASE Ends(j)
      <3>1. PICK answer \in Answers :
                /\ End(j, answer)
                /\ answer = "guild" => join[j].by \in members \/ guild = "gone"
                /\ answer = "refused" => Dead(join[j].code)
        BY <2>2 DEF Ends
      <3>2. PICK i \in Codes : i = join[j].code
        BY <1>1, <2>2 DEF Ends, LedgerInv, JoinsOK, Issued
      <3>3. Dead(i) => Dead(i)'
        BY <1>1, AgesFacts
      <3>4. answer = "guild" => join[j].by \in members' \/ guild' = "gone"
        BY <2>2, <3>1 DEF Ends
      <3>5. answer = "refused" => \E k \in Codes : k = join[j].code /\ Dead(k)'
        BY <3>1, <3>2, <3>3
      <3> QED BY <3>1, <3>4, <3>5, AnswerReachesPage
    <2>3. CASE Starts(j) \/ Takes(j) \/ InsertMember(j)
      BY <1>1, <2>3, JoinKeepsPage, TabsStay, PagesStay
    <2>4. CASE Admits(j)
      <3>1. End(j, "guild") /\ join[j].by \in members'
        BY <2>4 DEF Admits
      <3> QED BY <3>1, AnswerReachesPage DEF Answers
    <2> QED BY <2>1, <2>2, <2>3, <2>4
  <1> QED BY <1>2, <1>3, <1>4, <1>5
       DEF InviteNext, CreateInvite, Expire, RevokeStep, StartRevoke, LockRevoke,
           CommitRevoke, CheckRevoke, RevokeDeadlocks, RevokeErrs, RevokeFails,
           DeleteStep, StartDelete, DropInvite, FinishDelete, AbortDelete, inviteVars

LEMMA InviteInvInit == InviteInit => InviteInv
  <1> SUFFICES ASSUME InviteInit PROVE InviteInv
    OBVIOUS
  <1>1. NoJoin \in Join /\ NoJoin.at = "unused" /\ NoJoin.tab = None
    BY DEF NoJoin, Join
  <1>2. NoRevoke \in Revoke /\ NoRevoke.at = "unused"
    BY DEF NoRevoke, Revoke
  <1>3. Away \in Page /\ Away.at = "away" /\ Away.content = "unavailable" /\ ~Away.refused
    BY DEF Away, Page
  <1>4. /\ Absent \in Invite /\ ~Absent.there /\ ~Absent.disabled /\ Absent.used = {}
        /\ Absent.uses = 0 /\ Absent.audits = 0
    BY DEF Absent, Invite
  <1>5. /\ None \notin Joins \cup Revokes \cup {Deletion}
        /\ \A i \in Codes : MaxUses[i] \in Nat
    BY InviteAssumption
  <1>6. Typed
    BY <1>1, <1>2, <1>3, <1>4 DEF InviteInit, Typed
  <1>7. LocksAreHeld
    BY <1>1, <1>2, <1>5 DEF InviteInit, LocksAreHeld, Holding
  <1>8. GoneIsEmpty /\ JoinsOK /\ InsertsOK /\ RevokesOK
    BY <1>1, <1>2 DEF InviteInit, GoneIsEmpty, JoinsOK, InsertsOK, RevokesOK, Holding
  <1>9. LedgersAgree
    <2>1. Cardinality({}) = 0
      BY FS_EmptySet
    <2> QED BY <1>4, <1>5, <2>1 DEF InviteInit, LedgersAgree
  <1>10. OneUse
    BY <1>4 DEF InviteInit, OneUse
  <1>11. TabsOK /\ PagesOK
    BY <1>1, <1>3 DEF InviteInit, TabsOK, PagesOK, PageOK
  <1> QED BY <1>6, <1>7, <1>8, <1>9, <1>10, <1>11 DEF InviteInv, LedgerInv, LocksInv

LEMMA InviteInvStep == InviteInv /\ [InviteNext]_inviteVars => InviteInv'
  <1> SUFFICES ASSUME InviteInv, [InviteNext]_inviteVars PROVE InviteInv'
    OBVIOUS
  <1>1. LedgerInv'
    BY LedgerStep
  <1>2. Ages
    BY AgesStep
  <1>3. TabsOK' /\ PagesOK'
    BY <1>1, <1>2, PagesStep
  <1> QED BY <1>1, <1>3 DEF InviteInv

(* The inductive invariant holds in every reachable state.                  *)
THEOREM InvitesStayConsistent == InviteSpec => []InviteInv
  BY InviteInvInit, InviteInvStep, PTL DEF InviteSpec

-----------------------------------------------------------------------------
(* What the run checks, for every instance.                                *)

(* Types, and that every row lock belongs to the transaction that holds it:  *)
(* no answer, error or deadlock leaks one (invite/postgres.rs,               *)
(* join_invite and revoke_invite).                                          *)
THEOREM InviteTypeCorrect == InviteSpec => []InviteTypeOK
  <1>1. InviteInv => InviteTypeOK
    BY DEF InviteInv, LedgerInv, LocksInv, Typed, InviteTypeOK
  <1> QED BY <1>1, InvitesStayConsistent, PTL

(* The counter that limits an invite is the number of its uses, stays within  *)
(* max_uses, and an invite is disabled together with its audit record.       *)
THEOREM LedgersAlwaysAgree == InviteSpec => []LedgersAgree
  <1>1. InviteInv => LedgersAgree
    BY DEF InviteInv, LedgerInv
  <1> QED BY <1>1, InvitesStayConsistent, PTL

(* Whatever is joined at once, a member cost exactly one use.                *)
THEOREM MembersCostOneUse == InviteSpec => []OneUsePerMember
  <1>1. InviteInv => OneUsePerMember
    <2> SUFFICES ASSUME InviteInv, NEW u \in Users
        PROVE  Cardinality({i \in Codes : u \in invite[i].used}) =
                   IF u \in members THEN 1 ELSE 0
      BY DEF OneUsePerMember
    <2> DEFINE used == {i \in Codes : u \in invite[i].used}
    <2>1. OneUse
      BY DEF InviteInv, LedgerInv
    <2>2. CASE u \in members
      <3>1. PICK i \in Codes : \A k \in Codes : u \in invite[k].used <=> k = i
        BY <2>1, <2>2 DEF OneUse
      <3>2. used = {i}
        BY <3>1
      <3> HIDE DEF used
      <3>3. Cardinality(used) = 1
        BY <3>2, FS_Singleton
      <3> QED BY <2>2, <3>3 DEF used
    <2>3. CASE u \notin members
      <3>1. used = {}
        BY <2>1, <2>3 DEF OneUse
      <3> HIDE DEF used
      <3>2. Cardinality(used) = 0
        BY <3>1, FS_EmptySet
      <3> QED BY <2>3, <3>2 DEF used
    <2> QED BY <2>2, <2>3
  <1> QED BY <1>1, InvitesStayConsistent, PTL

(* A page that shows the guild is right, a refused one is not offered the    *)
(* same invite again, and a revocation always finds out why it failed.       *)
THEOREM AnswersStayTrue == InviteSpec => []AnswersAreTrue
  <1>1. InviteInv => AnswersAreTrue
    BY DEF InviteInv, LedgerInv, RevokesOK, PagesOK, PageOK, AnswersAreTrue
  <1> QED BY <1>1, InvitesStayConsistent, PTL

(* After a revocation nobody is admitted by the invite, not even a join that *)
(* had begun before it.                                                     *)
THEOREM NobodyAfterRevocation == InviteSpec => RevokedAdmitsNobody
  <1>1. InviteInv /\ [InviteNext]_inviteVars =>
            [\A i \in Codes : invite[i].disabled /\ guild' # "gone" =>
                                  invite'[i].used = invite[i].used]_inviteVars
    BY AgesStep DEF Ages, Keeps
  <1> QED BY <1>1, InvitesStayConsistent, PTL DEF InviteSpec, RevokedAdmitsNobody

=============================================================================
