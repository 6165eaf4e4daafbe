------------------------------- MODULE Invites -------------------------------
(* Invitations to one guild: the statements of invite/postgres.rs and of a guild's
   deletion as PostgreSQL runs them under READ COMMITTED, and the invite pages
   that send joins (app/invite/[code]).  A statement sees the rows of a snapshot
   taken when it begins; where it locks a row (FOR UPDATE) it waits for whoever
   holds it and then reads that row, and no other, anew.  ON CONFLICT waits for
   the uncommitted insert of the same key, and a foreign key is checked at the
   statement's end under a lock on the row it names.                          *)
EXTENDS FiniteSets, Integers

CONSTANTS
    Users,      \* those who are not members at the start
    Codes,      \* invites, each with its code
    MaxUses,    \* their max_uses; Cardinality(Users) is as good as NULL
    Joins,      \* bound: join requests
    Revokes,    \* bound: revocations
    Tabs,       \* browser tabs
    Deletion,   \* the transaction that deletes the guild
    None

ASSUME InviteAssumption ==
    /\ IsFiniteSet(Users) /\ MaxUses \in [Codes -> Nat \ {0}]
    /\ Joins \cap Revokes = {} /\ Deletion \notin Joins \cup Revokes
    /\ None \notin Users \cup Codes \cup Joins \cup Revokes \cup Tabs \cup {Deletion}

VARIABLES
    guild,      \* "kept" is a guild whose deletion failed
    members,    \* guild_members, among Users
    invite,     \* invites, invite_uses and the audit records of its revocation
    lock,       \* who holds the invite's row
    join,       \* join requests
    revoke,     \* revocations
    tab         \* invite pages

inviteVars == <<guild, members, invite, lock, join, revoke, tab>>

Invite ==
    [there : BOOLEAN, disabled : BOOLEAN, expired : BOOLEAN, uses : Nat,
     used : SUBSET Users, audits : Nat]

\* member, used, expired: what the statement's snapshot said.
Join ==
    [at : {"unused", "sent", "locking", "joinable", "inserted", "skipped", "over"},
     by : Users \cup {None}, code : Codes \cup {None}, tab : Tabs \cup {None},
     member : BOOLEAN, used : BOOLEAN, expired : BOOLEAN]

Revoke ==
    [at : {"unused", "locking", "holding", "checking", "revoked", "invalid",
           "missing", "unavailable", "unexplained"},
     code : Codes \cup {None}]

Page ==
    [at : {"away", "loading", "shown", "joining", "guild"},
     by : Users \cup {None}, code : Codes \cup {None},
     content : {"valid", "expired", "invalid", "unavailable"}, refused : BOOLEAN]

Absent ==
    [there |-> FALSE, disabled |-> FALSE, expired |-> FALSE, uses |-> 0, used |-> {},
     audits |-> 0]

NoJoin ==
    [at |-> "unused", by |-> None, code |-> None, tab |-> None, member |-> FALSE,
     used |-> FALSE, expired |-> FALSE]

NoRevoke == [at |-> "unused", code |-> None]

Away ==
    [at |-> "away", by |-> None, code |-> None, content |-> "unavailable",
     refused |-> FALSE]

Full(i) == invite[i].uses >= MaxUses[i]

Free(i) == lock[i] = None

Release(i) == [lock EXCEPT ![i] = None]

-----------------------------------------------------------------------------
(* Issuing, expiry and the public status.                                    *)

\* Three codes are drawn; a collision leaves no row.
CreateInvite(i) ==
    /\ guild \in {"alive", "kept"}
    /\ ~invite[i].there
    /\ invite' = [invite EXCEPT ![i].there = TRUE]
    /\ UNCHANGED <<guild, members, lock, join, revoke, tab>>

Expire(i) ==
    /\ invite[i].there /\ ~invite[i].expired
    /\ invite' = [invite EXCEPT ![i].expired = TRUE]
    /\ UNCHANGED <<guild, members, lock, join, revoke, tab>>

Verify(i) ==
    IF ~invite[i].there \/ invite[i].disabled \/ Full(i) THEN "invalid"
    ELSE IF invite[i].expired THEN "expired" ELSE "valid"

-----------------------------------------------------------------------------
(* The invite page.                                                          *)

Visit(t, u, i) ==
    /\ tab[t].at = "away"
    /\ tab' = [tab EXCEPT ![t] = [Away EXCEPT !.at = "loading", !.by = u, !.code = i]]
    /\ UNCHANGED <<guild, members, invite, lock, join, revoke>>

\* The page is rendered with the invite's status, or without it.
Load(t) ==
    /\ tab[t].at = "loading"
    /\ \E content \in {Verify(tab[t].code), "unavailable"} :
           tab' = [tab EXCEPT ![t].at = "shown", ![t].content = content]
    /\ UNCHANGED <<guild, members, invite, lock, join, revoke>>

Retry(t) ==
    /\ tab[t].at = "shown" /\ tab[t].content = "unavailable"
    /\ tab' = [tab EXCEPT ![t].at = "loading"]
    /\ UNCHANGED <<guild, members, invite, lock, join, revoke>>

\* The button, or once per page the flag that a login left in its address.
Attempt(t, j) ==
    /\ tab[t].at = "shown" /\ tab[t].content = "valid"
    /\ join[j].at = "unused"
    /\ tab' = [tab EXCEPT ![t].at = "joining"]
    /\ join' = [join EXCEPT ![j] =
           [NoJoin EXCEPT !.at = "sent", !.by = tab[t].by, !.code = tab[t].code, !.tab = t]]
    /\ UNCHANGED <<guild, members, invite, lock, revoke>>

\* No answer comes; the request goes on without its page, which shows a notice.
Disconnect(j) ==
    /\ join[j].tab # None
    /\ tab' = [tab EXCEPT ![join[j].tab].at = "shown"]
    /\ join' = [join EXCEPT ![j].tab = None]
    /\ UNCHANGED <<guild, members, invite, lock, revoke>>

\* Mutant of Told: a failed request leaves isJoining set.
ToldStillJoining(page, answer) ==
    CASE answer = "guild"   -> [page EXCEPT !.at = "guild"]
      [] answer = "refused" -> [page EXCEPT !.at = "loading", !.refused = TRUE]
      [] answer = "login"   -> [page EXCEPT !.at = "loading"]
      [] answer = "notice"  -> page

\* What the page makes of an answer: the guild's route, its own route again, the
\* login page, which leads back here, or a notice.
Told(page, answer) ==
    CASE answer = "guild"   -> [page EXCEPT !.at = "guild"]
      [] answer = "refused" -> [page EXCEPT !.at = "loading", !.refused = TRUE]
      [] answer = "login"   -> [page EXCEPT !.at = "loading"]
      [] answer = "notice"  -> [page EXCEPT !.at = "shown"]

\* The request is answered.
End(j, answer) ==
    /\ join' = [join EXCEPT ![j] = [NoJoin EXCEPT !.at = "over"]]
    /\ tab' = IF join[j].tab = None THEN tab
              ELSE [tab EXCEPT ![join[j].tab] = Told(@, answer)]

-----------------------------------------------------------------------------
(* A join, one statement and one transaction.                                *)

\* No principal, too many requests, no connection.
Refuse(j) ==
    /\ join[j].at = "sent"
    /\ \E answer \in {"login", "notice"} : End(j, answer)
    /\ UNCHANGED <<guild, members, invite, lock, revoke>>

Begin(j) ==
    /\ join[j].at = "sent"
    /\ LET i == join[j].code IN
       IF ~invite[i].there THEN End(j, "refused")
       ELSE /\ join' = [join EXCEPT ![j].at = "locking",
                            ![j].member = join[j].by \in members,
                            ![j].used = join[j].by \in invite[i].used,
                            ![j].expired = invite[i].expired]
            /\ UNCHANGED tab
    /\ UNCHANGED <<guild, members, invite, lock, revoke>>

\* Mutant of Lock: the row is read without FOR UPDATE.
LockNothing(j) ==
    /\ join[j].at = "locking"
    /\ LET i == join[j].code IN
       IF ~invite[i].there THEN End(j, "refused")
       ELSE IF join[j].member THEN End(j, "guild")
       ELSE IF invite[i].disabled \/ Full(i) \/ join[j].expired THEN End(j, "refused")
       ELSE join' = [join EXCEPT ![j].at = "joinable"] /\ UNCHANGED tab
    /\ UNCHANGED <<guild, members, invite, lock, revoke>>

\* locked_invite and invite_state: the invite as it is now, the membership and
\* the clock as they were.
Lock(j) ==
    /\ join[j].at = "locking" /\ Free(join[j].code)
    /\ LET i == join[j].code IN
       IF ~invite[i].there THEN End(j, "refused") /\ UNCHANGED lock
       ELSE IF join[j].member THEN End(j, "guild") /\ UNCHANGED lock
       ELSE IF invite[i].disabled \/ Full(i) \/ join[j].expired
       THEN End(j, "refused") /\ UNCHANGED lock
       ELSE /\ lock' = [lock EXCEPT ![i] = j]
            /\ join' = [join EXCEPT ![j].at = "joinable"]
            /\ UNCHANGED tab
    /\ UNCHANGED <<guild, members, invite, revoke>>

\* member_insert waits for another one of the same user that is not committed.
Inserting(u) == {k \in Joins : join[k].at = "inserted" /\ join[k].by = u}

\* Mutant of InsertMember: a use is counted for a user who was a member already.
InsertMemberAlways(j) ==
    /\ join[j].at = "joinable" /\ Inserting(join[j].by) = {}
    /\ join' = [join EXCEPT ![j].at = "inserted"]
    /\ UNCHANGED <<guild, members, invite, lock, revoke, tab>>

\* Mutant of InsertMember: an uncommitted insert conflicts like any other.
InsertMemberAtOnce(j) ==
    /\ join[j].at = "joinable"
    /\ join' = [join EXCEPT ![j].at =
           IF join[j].by \in members \/ Inserting(join[j].by) # {} THEN "skipped" ELSE "inserted"]
    /\ UNCHANGED <<guild, members, invite, lock, revoke, tab>>

InsertMember(j) ==
    /\ join[j].at = "joinable" /\ Inserting(join[j].by) = {}
    /\ join' = [join EXCEPT ![j].at =
           IF join[j].by \in members THEN "skipped" ELSE "inserted"]
    /\ UNCHANGED <<guild, members, invite, lock, revoke, tab>>

\* usage_insert and invite_bump follow a member that was inserted.
Used(i, j) ==
    IF join[j].used \/ join[j].by \in invite[i].used THEN invite
    ELSE [invite EXCEPT ![i].used = @ \cup {join[j].by}, ![i].uses = @ + 1]

\* The rows that were inserted name the guild.
Commit(j) ==
    /\ \/ /\ join[j].at = "skipped"
          /\ UNCHANGED <<members, invite>>
       \/ /\ join[j].at = "inserted" /\ guild # "deleting"
          /\ members' = members \cup {join[j].by}
          /\ invite' = Used(join[j].code, j)
    /\ lock' = Release(join[j].code)
    /\ End(j, "guild")
    /\ UNCHANGED <<guild, revoke>>

Holding(j) == join[j].at \in {"joinable", "inserted", "skipped"}

\* Mutant of Rollback: the transaction is left open.
RollbackKeepsLock(j) == lock' = lock /\ End(j, "notice")

Rollback(j) ==
    /\ lock' = IF Holding(j) THEN Release(join[j].code) ELSE lock
    /\ End(j, "notice")

JoinErrs(j) ==
    /\ join[j].at = "locking" \/ Holding(j)
    /\ Rollback(j)
    /\ UNCHANGED <<guild, members, invite, revoke>>

-----------------------------------------------------------------------------
(* A revocation: one statement, and if it found nothing another that says why. *)

Revocable(i) ==
    invite[i].there /\ ~invite[i].disabled /\ ~invite[i].expired /\ ~Full(i)

StartRevoke(r, i) ==
    /\ revoke[r].at = "unused" /\ invite[i].there
    /\ revoke' = [revoke EXCEPT ![r] =
           [at |-> IF Revocable(i) THEN "locking" ELSE "checking", code |-> i]]
    /\ UNCHANGED <<guild, members, invite, lock, join, tab>>

\* Its conditions are evaluated again, the clock's with the statement's time.
LockRevoke(r) ==
    /\ revoke[r].at = "locking" /\ Free(revoke[r].code)
    /\ LET i == revoke[r].code IN
       IF invite[i].there /\ ~invite[i].disabled /\ ~Full(i)
       THEN /\ lock' = [lock EXCEPT ![i] = r]
            /\ revoke' = [revoke EXCEPT ![r].at = "holding"]
       ELSE revoke' = [revoke EXCEPT ![r].at = "checking"] /\ UNCHANGED lock
    /\ UNCHANGED <<guild, members, invite, join, tab>>

\* The audit record names the guild.
CommitRevoke(r) ==
    /\ revoke[r].at = "holding" /\ guild # "deleting"
    /\ LET i == revoke[r].code IN
       /\ invite' = [invite EXCEPT ![i].disabled = TRUE, ![i].audits = @ + 1]
       /\ lock' = Release(i)
    /\ revoke' = [revoke EXCEPT ![r].at = "revoked"]
    /\ UNCHANGED <<guild, members, join, tab>>

\* verify_manageable_guild_access and find_invite_state.
CheckRevoke(r) ==
    /\ revoke[r].at = "checking"
    /\ LET i == revoke[r].code IN
       revoke' = [revoke EXCEPT ![r].at =
           IF ~invite[i].there THEN "missing"
           ELSE IF Revocable(i) THEN "unexplained" ELSE "invalid"]
    /\ UNCHANGED <<guild, members, invite, lock, join, tab>>

RevokeFails(r) ==
    /\ revoke' = [revoke EXCEPT ![r].at = "unavailable"]
    /\ lock' = IF revoke[r].at = "holding" THEN Release(revoke[r].code) ELSE lock
    /\ UNCHANGED <<guild, members, invite, join, tab>>

RevokeErrs(r) == revoke[r].at \in {"locking", "holding", "checking"} /\ RevokeFails(r)

-----------------------------------------------------------------------------
(* The guild is deleted: its row is locked first, then the foreign keys cascade
   to rows that others may hold.  PostgreSQL's deadlock detector breaks a cycle
   at either end.                                                             *)

StartDelete ==
    /\ guild = "alive"
    /\ guild' = "deleting"
    /\ UNCHANGED <<members, invite, lock, join, revoke, tab>>

DropInvite(i) ==
    /\ guild = "deleting" /\ Free(i)
    /\ lock' = [lock EXCEPT ![i] = Deletion]
    /\ UNCHANGED <<guild, members, invite, join, revoke, tab>>

\* A revocation that has begun holds its author's membership.
Guarding(r) == revoke[r].at \in {"locking", "holding"}

FinishDelete ==
    /\ guild = "deleting"
    /\ \A i \in Codes : lock[i] = Deletion
    /\ \A r \in Revokes : ~Guarding(r)
    /\ guild' = "gone"
    /\ members' = {}
    /\ invite' = [i \in Codes |-> Absent]
    /\ lock' = [i \in Codes |-> None]
    /\ UNCHANGED <<join, revoke, tab>>

AbortDelete ==
    /\ guild = "deleting"
    /\ guild' = "kept"
    /\ lock' = [i \in Codes |-> IF lock[i] = Deletion THEN None ELSE lock[i]]
    /\ UNCHANGED <<members, invite, join, revoke, tab>>

\* It waits for the guild, the deletion for its invite.
JoinDeadlocks(j) ==
    /\ guild = "deleting" /\ join[j].at = "inserted"
    /\ Rollback(j)
    /\ UNCHANGED <<guild, members, invite, revoke>>

RevokeDeadlocks(r) ==
    /\ guild = "deleting"
    /\ \/ revoke[r].at = "holding"
       \/ revoke[r].at = "locking" /\ lock[revoke[r].code] = Deletion
    /\ RevokeFails(r)

-----------------------------------------------------------------------------

InviteInit ==
    /\ guild = "alive"
    /\ members = {}
    /\ invite = [i \in Codes |-> Absent]
    /\ lock = [i \in Codes |-> None]
    /\ join = [j \in Joins |-> NoJoin]
    /\ revoke = [r \in Revokes |-> NoRevoke]
    /\ tab = [t \in Tabs |-> Away]

JoinStep(j) == Begin(j) \/ Lock(j) \/ InsertMember(j) \/ Commit(j) \/ JoinDeadlocks(j)

RevokeStep(r) == LockRevoke(r) \/ CommitRevoke(r) \/ CheckRevoke(r) \/ RevokeDeadlocks(r)

DeleteStep == (\E i \in Codes : DropInvite(i)) \/ FinishDelete

InviteNext ==
    \/ \E i \in Codes : CreateInvite(i) \/ Expire(i)
    \/ \E t \in Tabs :
          \/ \E u \in Users, i \in Codes : Visit(t, u, i)
          \/ Load(t) \/ Retry(t) \/ \E j \in Joins : Attempt(t, j)
    \/ \E j \in Joins : Disconnect(j) \/ Refuse(j) \/ JoinStep(j) \/ JoinErrs(j)
    \/ \E r \in Revokes :
          \/ \E i \in Codes : StartRevoke(r, i)
          \/ RevokeStep(r) \/ RevokeErrs(r)
    \/ StartDelete \/ DeleteStep \/ AbortDelete

InviteSpec == InviteInit /\ [][InviteNext]_inviteVars

\* Statements make progress, PostgreSQL hands a lock to those who wait for it and
\* breaks deadlocks.
FairInviteSpec ==
    /\ InviteSpec
    /\ \A j \in Joins : WF_inviteVars(JoinStep(j))
    /\ \A r \in Revokes : WF_inviteVars(RevokeStep(r))
    /\ WF_inviteVars(DeleteStep)

-----------------------------------------------------------------------------
(* What invites promise.                                                     *)

\* A row is locked by the transaction that says so, and by no other.
LocksAreHeld ==
    \A i \in Codes :
        /\ \A j \in Joins : lock[i] = j <=> Holding(j) /\ join[j].code = i
        /\ \A r \in Revokes : lock[i] = r <=> revoke[r].at = "holding" /\ revoke[r].code = i
        /\ lock[i] = Deletion => guild = "deleting"

InviteTypeOK ==
    /\ guild \in {"alive", "deleting", "kept", "gone"}
    /\ members \subseteq Users
    /\ invite \in [Codes -> Invite]
    /\ lock \in [Codes -> Joins \cup Revokes \cup {Deletion, None}]
    /\ join \in [Joins -> Join]
    /\ revoke \in [Revokes -> Revoke]
    /\ tab \in [Tabs -> Page]
    /\ LocksAreHeld

\* invites.uses counts the rows of invite_uses and stays within max_uses, and an
\* invite is disabled exactly when one revocation was recorded.
LedgersAgree ==
    \A i \in Codes :
        /\ invite[i].uses = Cardinality(invite[i].used) /\ invite[i].uses <= MaxUses[i]
        /\ invite[i].audits = IF invite[i].disabled THEN 1 ELSE 0

\* A member cost one use of one invite, whichever invites and requests were
\* tried at once; whoever is no member cost none.
OneUsePerMember ==
    \A u \in Users :
        Cardinality({i \in Codes : u \in invite[i].used}) = IF u \in members THEN 1 ELSE 0

\* Nobody gets in by an invite that is disabled, not even a join that began, or
\* was found joinable, before the revocation.
RevokedAdmitsNobody ==
    [][\A i \in Codes :
          invite[i].disabled /\ guild' # "gone" => invite'[i].used = invite[i].used]_inviteVars

\* A page that leads to the guild belongs to a member of it, a page that was
\* refused finds no valid invite when it is loaded again, and a revocation that
\* found nothing finds out why.
AnswersAreTrue ==
    /\ \A t \in Tabs :
          /\ tab[t].at = "guild" /\ guild # "gone" => tab[t].by \in members
          /\ tab[t].refused /\ tab[t].at = "shown" => tab[t].content # "valid"
    /\ \A r \in Revokes : revoke[r].at # "unexplained"

\* A page does not wait for ever: no lock is leaked and no deadlock stays.
JoiningEnds == \A t \in Tabs : tab[t].at = "joining" ~> tab[t].at # "joining"

=============================================================================
