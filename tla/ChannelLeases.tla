--------------------------- MODULE ChannelLeases ---------------------------
(***************************************************************************)
(* Who holds the channels of a connection: the lease of a channel, the     *)
(* same in the four transports, and ChannelGroup                           *)
(* (packages/core/src/channel-group.ts), which takes the channels of all   *)
(* roles of a session or none.                                             *)
(*                                                                         *)
(* A channel grants at the call, the answer arrives later.  live() is the  *)
(* session's own test that it still wants the connection: it may fail at   *)
(* any time.                                                               *)
(***************************************************************************)
EXTENDS Naturals, Sequences, SequencesExt

CONSTANTS Channels, Groups, Free

\* lease: the channel's holder; group: a group's channels in the order of the
\* roles, where it is, the leases it took and what releasing them failed at;
\* ended: the connection has ended.
VARIABLES lease, group, ended

leaseVars == <<lease, group, ended>>

\* The channels of the roles request, response and event, each once.
Selections == {s \in SeqOf(Channels, 3) : s # <<>> /\ IsInjective(s)}

LeasesInit ==
    /\ lease = [c \in Channels |-> Free] /\ ended = FALSE
    /\ group = [g \in Groups |-> [at |-> "idle", roles |-> <<>>, taken |-> <<>>, stuck |-> {}]]

Set(g, r) == group' = [group EXCEPT ![g] = r]

\* Roll back: what was taken is released, the last first.
RolledBack(r) == [r EXCEPT !.at = IF r.taken = <<>> THEN "failed" ELSE "rolling-back"]

\* The next channel of the group: live() again, then its acquire().
AskNext(g, r) ==
    LET c == r.roles[Len(r.taken) + 1] IN
    \/ /\ ~ended /\ lease[c] = Free
       /\ lease' = [lease EXCEPT ![c] = g] /\ Set(g, [r EXCEPT !.at = "granted"])
    \/ Set(g, RolledBack(r)) /\ UNCHANGED lease       \* refused, or not live

Acquire(g) ==
    /\ group[g].at = "idle" /\ UNCHANGED ended
    /\ \E s \in Selections : AskNext(g, [group[g] EXCEPT !.roles = s])

\* The lease arrives and is kept, and then live() is asked.
Granted(g) ==
    LET r == [group[g] EXCEPT !.taken = Append(@, group[g].roles[Len(@) + 1])] IN
    /\ group[g].at = "granted" /\ UNCHANGED ended
    /\ \/ Set(g, RolledBack(r)) /\ UNCHANGED lease
       \/ Len(r.taken) = Len(r.roles) /\ Set(g, [r EXCEPT !.at = "held"]) /\ UNCHANGED lease
       \/ Len(r.taken) < Len(r.roles) /\ AskNext(g, r)

Release(g) == /\ group[g].at = "held" /\ UNCHANGED <<lease, ended>>
              /\ Set(g, [group[g] EXCEPT !.at = "releasing"])

\* releaseAll gives up at the first failure.
StopsAtFailure(g, r, rest) ==
    Set(g, [r EXCEPT !.taken = rest, !.at = IF r.at = "releasing" THEN "released" ELSE "failed"])

Continues(g, r, rest) ==
    Set(g, [r EXCEPT !.taken = rest,
                     !.at = IF rest # <<>> THEN @ ELSE IF @ = "releasing" THEN "released" ELSE "failed"])

\* A lease's release(): it ends its iterator, then the channel forgets it, if
\* it is still its own.  The iterator's end may fail: the lease is used up,
\* and the channel stays held.  releaseAll goes on in any case.
Returned(g) ==
    LET r == group[g] c == Last(r.taken) IN
    /\ r.at \in {"releasing", "rolling-back"} /\ UNCHANGED ended
    /\ \/ /\ lease' = [lease EXCEPT ![c] = IF @ = g THEN Free ELSE @]
          /\ Continues(g, r, Front(r.taken))
       \/ /\ Continues(g, [r EXCEPT !.stuck = @ \cup {c}], Front(r.taken))
          /\ UNCHANGED lease

\* The connection ends: every lease is invalidated and forgotten.
End == /\ ~ended /\ ended' = TRUE
       /\ lease' = [c \in Channels |-> Free] /\ UNCHANGED group

LeasesNext == End \/ \E g \in Groups : Acquire(g) \/ Granted(g) \/ Release(g) \/ Returned(g)

-----------------------------------------------------------------------------
Holds(g) == {c \in Channels : lease[c] = g}

\* A group that is in use has every channel of its roles, and one that was
\* released or failed holds none, except one whose own release failed: no
\* failure in the middle, of an acquisition or of a release, keeps a channel
\* from the next session.
AllOrNone ==
    \A g \in Groups :
        /\ group[g].at = "held" /\ ~ended => Holds(g) = Range(group[g].roles)
        /\ group[g].at \in {"idle", "released", "failed"} => Holds(g) \subseteq group[g].stuck
=============================================================================
