-------------------------- MODULE TransportsProofs --------------------------
(***************************************************************************)
(* The transports, for any number of connections, groups and channels: the *)
(* opening of a USB device and the acquisition of its channels account for *)
(* what they hold, each of the four adapters implements the contract of    *)
(* ByteConnection, and the serial ones keep the silence a device is owed.  *)
(***************************************************************************)
EXTENDS TransportsMC, Sequences, TLAPS

\* Where the opening of a USB device holds what.
Unclaimed == {"naming", "selecting", "configuring", "validating", "claiming"}
Claimed == {"observing", "setting", "observing-again", "hydrating", "connected"}

\* The values the opening of one USB device ranges over.
OpeningTypeOK ==
    /\ host \in {"node", "web"}
    /\ profile \in [ends : [Usb!Ends -> Usb!Records], preserve : BOOLEAN]
    /\ speed \in Usb!Speeds \cup {"unreported"}
    /\ at \in {"idle", "opening", "releasing", "closing", "failed"} \cup Unclaimed \cup Claimed
    /\ native \in [open : BOOLEAN, claimed : BOOLEAN, stuck : SUBSET {"claimed", "open"}]
    /\ seen \in [config : {"none", "other", "declared"}, alternate : {"unread", "declared", "other"},
                 ends : Usb!Descriptors]

\* The inductive invariant of the opening: what each stage of open() holds at
\* the device and has seen of its descriptors, and that a failed one holds only
\* what the device would not let go.
OpeningInv ==
    /\ OpeningTypeOK
    /\ at \in {"idle", "opening"} => ~native.open /\ ~native.claimed
    /\ at \in Unclaimed => native.open /\ ~native.claimed
    /\ at \in Claimed \cup {"releasing"} => native.open /\ native.claimed
    /\ at = "closing" => native.open /\ (native.claimed => "claimed" \in native.stuck)
    /\ at \in {"validating", "claiming"} \cup Claimed => Usb!ConfigurationStands(seen.config)
    /\ at \in {"claiming"} \cup Claimed => Usb!Accepted(seen.ends)
    /\ at \in {"hydrating", "connected"} => seen.alternate = "declared"
    /\ at = "failed" => /\ native.claimed => "claimed" \in native.stuck
                        /\ native.open => "open" \in native.stuck

\* What was accepted of the descriptors stays so while nothing new is read.
LEMMA OpeningSeenKept ==
    ASSUME UNCHANGED <<profile, speed, seen>>
    PROVE  /\ Usb!Accepted(seen.ends)' <=> Usb!Accepted(seen.ends)
           /\ Usb!ConfigurationStands(seen.config)' <=> Usb!ConfigurationStands(seen.config)
BY DEF Usb!Accepted, Usb!EndpointAccepted, Usb!Matching, Usb!ConfigurationStands

\* Every step of the opening keeps its invariant, action by action.
LEMMA OpeningStep1 == ASSUME OpeningInv, Usb!OpeningNext PROVE OpeningInv'
<1>1. CASE Usb!Begin
  BY <1>1, OpeningSeenKept DEF Usb!Begin, OpeningInv, OpeningTypeOK, Unclaimed, Claimed, Usb!Goes
<1>2. CASE Usb!Opened
  BY <1>2, OpeningSeenKept DEF Usb!Opened, OpeningInv, OpeningTypeOK, Unclaimed, Claimed,
     Usb!Goes, Usb!GivesUp, Usb!Undo
<1>3. CASE Usb!Named
  BY <1>3, OpeningSeenKept DEF Usb!Named, OpeningInv, OpeningTypeOK, Unclaimed, Claimed,
     Usb!Goes, Usb!GivesUp, Usb!Undo
<1>4. CASE Usb!Select
  BY <1>4 DEF Usb!Select, OpeningInv, OpeningTypeOK, Unclaimed, Claimed, Usb!Goes,
     Usb!GivesUp, Usb!Undo, Usb!ConfigurationStands
<1>5. CASE Usb!Configured
  BY <1>5 DEF Usb!Configured, OpeningInv, OpeningTypeOK, Unclaimed, Claimed, Usb!Goes,
     Usb!GivesUp, Usb!Undo, Usb!ConfigurationStands
<1>6. CASE Usb!Validate
  BY <1>6 DEF Usb!Validate, OpeningInv, OpeningTypeOK, Unclaimed, Claimed, Usb!Goes,
     Usb!GivesUp, Usb!Undo, Usb!ConfigurationStands,
                Usb!Accepted, Usb!EndpointAccepted, Usb!Matching
<1>7. CASE Usb!ClaimAnswers
  BY <1>7, OpeningSeenKept DEF Usb!ClaimAnswers, OpeningInv, OpeningTypeOK, Unclaimed,
     Claimed, Usb!Goes, Usb!GivesUp, Usb!Undo
<1>8. CASE Usb!Observe
  BY <1>8 DEF Usb!Observe, OpeningInv, OpeningTypeOK, Unclaimed, Claimed, Usb!Goes,
     Usb!GivesUp, Usb!Undo, Usb!ConfigurationStands,
                Usb!Accepted, Usb!EndpointAccepted, Usb!Matching
<1>9. CASE Usb!AlternateSet
  BY <1>9, OpeningSeenKept DEF Usb!AlternateSet, OpeningInv, OpeningTypeOK, Unclaimed,
     Claimed, Usb!Goes, Usb!GivesUp, Usb!Undo
<1>10. CASE Usb!ObserveAgain
  BY <1>10 DEF Usb!ObserveAgain, OpeningInv, OpeningTypeOK, Unclaimed, Claimed, Usb!Goes,
     Usb!GivesUp, Usb!Undo, Usb!ConfigurationStands,
                Usb!Accepted, Usb!EndpointAccepted, Usb!Matching
<1>11. CASE Usb!Hydrate
  BY <1>11 DEF Usb!Hydrate, OpeningInv, OpeningTypeOK, Unclaimed, Claimed, Usb!Goes,
     Usb!GivesUp, Usb!Undo, Usb!Unchanged, Usb!Ends, Usb!ConfigurationStands,
                Usb!Accepted, Usb!EndpointAccepted, Usb!Matching
<1>12. CASE Usb!Released
  <2>1. at = "releasing" /\ at' = "closing" /\ UNCHANGED <<seen, host, profile, speed>>
    BY <1>12 DEF Usb!Released, Usb!Goes
  <2>2. CASE native' = [native EXCEPT !.claimed = FALSE]
    BY <2>1, <2>2 DEF OpeningInv, OpeningTypeOK, Unclaimed, Claimed
  <2>3. CASE native' = [native EXCEPT !.stuck = @ \cup {"claimed"}]
    <3>1. native.stuck \cup {"claimed"} \in SUBSET {"claimed", "open"}
      BY DEF OpeningInv, OpeningTypeOK
    <3>2. native' \in [open : BOOLEAN, claimed : BOOLEAN, stuck : SUBSET {"claimed", "open"}]
      BY <2>3, <3>1 DEF OpeningInv, OpeningTypeOK
    <3>3. /\ native'.stuck = native.stuck \cup {"claimed"}
          /\ native'.claimed = native.claimed /\ native'.open = native.open
      BY <2>3 DEF OpeningInv, OpeningTypeOK
    <3> QED BY <2>1, <3>2, <3>3 DEF OpeningInv, OpeningTypeOK, Unclaimed, Claimed
  <2> QED BY <1>12, <2>2, <2>3 DEF Usb!Released
<1>13. CASE Usb!Closed
  <2>1. at = "closing" /\ at' = "failed" /\ UNCHANGED <<seen, host, profile, speed>>
    BY <1>13 DEF Usb!Closed, Usb!Goes
  <2>2. CASE native' = [native EXCEPT !.open = FALSE]
    BY <2>1, <2>2 DEF OpeningInv, OpeningTypeOK, Unclaimed, Claimed
  <2>3. CASE native' = [native EXCEPT !.stuck = @ \cup {"open"}]
    <3>1. native.stuck \cup {"open"} \in SUBSET {"claimed", "open"}
      BY DEF OpeningInv, OpeningTypeOK
    <3>2. native' \in [open : BOOLEAN, claimed : BOOLEAN, stuck : SUBSET {"claimed", "open"}]
      BY <2>3, <3>1 DEF OpeningInv, OpeningTypeOK
    <3>3. /\ native'.stuck = native.stuck \cup {"open"}
          /\ native'.claimed = native.claimed /\ native'.open = native.open
      BY <2>3 DEF OpeningInv, OpeningTypeOK
    <3> QED BY <2>1, <3>2, <3>3 DEF OpeningInv, OpeningTypeOK, Unclaimed, Claimed
  <2> QED BY <1>13, <2>2, <2>3 DEF Usb!Closed
<1> QED
  BY <1>1, <1>2, <1>3, <1>4, <1>5, <1>6, <1>7, <1>8, <1>9, <1>10, <1>11, <1>12,
     <1>13 DEF Usb!OpeningNext

\* The opening's invariant holds throughout.
LEMMA OpeningHolds == Spec => [](kind = "opening" => OpeningInv)
<1>1. Init => (kind = "opening" => OpeningInv)
  <2>1. [e \in Usb!Ends |-> 0] \in Usb!Descriptors
    BY DEF Usb!Descriptors
  <2>2. Init /\ kind = "opening" => Usb!OpeningInit
    BY DEF Init, Starts
  <2>3. Usb!OpeningInit => OpeningTypeOK
    BY <2>1 DEF Usb!OpeningInit, OpeningTypeOK
  <2> QED BY <2>2, <2>3 DEF Usb!OpeningInit, OpeningInv, Unclaimed, Claimed
<1>2. (kind = "opening" => OpeningInv) /\ [Next]_vars => (kind = "opening" => OpeningInv)'
  <2> SUFFICES ASSUME kind = "opening" => OpeningInv, [Next]_vars, kind' = "opening"
               PROVE  OpeningInv'
    OBVIOUS
  <2>1. CASE LinkStep
    BY <2>1 DEF LinkStep, NodeSerialStep, BrowserSerialStep, NodeUsbStep, BrowserUsbStep
  <2>2. CASE OpeningStep
    BY <2>2, OpeningStep1 DEF OpeningStep
  <2>3. CASE LeasesStep
    BY <2>3 DEF LeasesStep
  <2>4. CASE UNCHANGED vars
    <3>1. UNCHANGED <<kind, host, profile, speed, at, native, seen>>
      BY <2>4 DEF vars, opening
    <3> QED BY <3>1, OpeningSeenKept DEF OpeningInv, OpeningTypeOK
  <2> QED BY <2>1, <2>2, <2>3, <2>4 DEF Next
<1> QED BY <1>1, <1>2, PTL DEF Spec

\* A device reported open is the declared one, claimed and on its declared
\* alternate; a failed open leaves nothing claimed that could be given back.
LEMMA OpeningAccounted == OpeningInv => Usb!OpenedAsDeclared /\ Usb!NothingLeftBehind
<1> SUFFICES ASSUME OpeningInv PROVE Usb!OpenedAsDeclared /\ Usb!NothingLeftBehind
  OBVIOUS
<1>1. Usb!OpenedAsDeclared
  <2> SUFFICES ASSUME at = "connected" PROVE Usb!OpenedAsDeclared
    BY DEF Usb!OpenedAsDeclared
  <2>1. Usb!Accepted(seen.ends) /\ Usb!ConfigurationStands(seen.config)
    BY DEF OpeningInv, Claimed
  <2>2. \A e \in Usb!Ends : DOMAIN profile.ends[e] \subseteq Usb!Speeds
    BY DEF OpeningInv, OpeningTypeOK, Usb!Records
  <2>3. PICK s : s \in Usb!Matching("in", seen.ends) /\ s \in Usb!Matching("out", seen.ends)
    BY <2>1 DEF Usb!Accepted
  <2>4. /\ s \in IF speed = "unreported" THEN Usb!Speeds ELSE {speed}
        /\ \A e \in Usb!Ends : s \in DOMAIN profile.ends[e] /\ profile.ends[e][s] = seen.ends[e]
    BY <2>1, <2>2, <2>3 DEF Usb!Accepted, Usb!EndpointAccepted, Usb!Matching, Usb!Ends
  <2> QED BY <2>1, <2>4 DEF OpeningInv, Claimed, Usb!OpenedAsDeclared, Usb!ConfigurationStands
<1>2. Usb!NothingLeftBehind
  BY DEF OpeningInv, OpeningTypeOK, Claimed, Unclaimed, Usb!NothingLeftBehind
<1> QED BY <1>1, <1>2

-----------------------------------------------------------------------------

\* Where one acquisition is.
Stages == {"idle", "granted", "held", "releasing", "rolling-back", "released", "failed"}

\* The channels a group may still hold: of those it has asked for, one that was
\* granted and not yet kept included, and those it could not give back.
Claims(r) ==
    {r.roles[i] : i \in 1 .. Len(r.taken) + (IF r.at = "granted" THEN 1 ELSE 0)} \cup r.stuck

\* The shape of one acquisition: the channels taken are a prefix of those asked
\* for, and each stage of it says whether there are any.
GroupTypeOK(r) ==
    /\ r \in [at : Stages, roles : Seq(Channels), taken : Seq(Channels), stuck : SUBSET Channels]
    /\ Len(r.taken) <= Len(r.roles)
    /\ \A i \in 1 .. Len(r.taken) : r.taken[i] = r.roles[i]
    /\ r.at = "granted" => Len(r.taken) < Len(r.roles)
    /\ r.at = "held" => Len(r.taken) = Len(r.roles) /\ r.taken # <<>>
    /\ r.at \in {"idle", "granted", "held"} => r.stuck = {}
    /\ r.at \in {"idle", "released", "failed"} => r.taken = <<>>
    /\ r.at \in {"rolling-back", "releasing"} => r.taken # <<>>

\* The inductive invariant of the acquisitions: a group holds no lease but the
\* ones it claims, and all of those while it is asking or held.
LeasesInv ==
    /\ lease \in [Channels -> Groups \cup {Nobody}] /\ ended \in BOOLEAN
    /\ ended => \A c \in Channels : lease[c] = Nobody
    /\ DOMAIN group = Groups
    /\ \A g \in Groups :
        /\ GroupTypeOK(group[g])
        /\ Lease!Holds(g) \subseteq Claims(group[g])
        /\ group[g].at \in {"granted", "held"} /\ ~ended => Claims(group[g]) \subseteq Lease!Holds(g)

\* A step of one group that leaves the leases of the others as they are.
LEMMA OneGroup ==
    ASSUME LeasesInv, NEW g \in Groups, NEW r, Lease!Set(g, r), UNCHANGED ended,
           lease' \in [Channels -> Groups \cup {Nobody}],
           \A c \in Channels : lease'[c] # lease[c] => ~ended /\ {lease[c], lease'[c]} = {g, Nobody},
           GroupTypeOK(r), Lease!Holds(g)' \subseteq Claims(r),
           r.at \in {"granted", "held"} /\ ~ended => Claims(r) \subseteq Lease!Holds(g)'
    PROVE  LeasesInv'
<1>1. \A h \in Groups \ {g} : group'[h] = group[h] /\ Lease!Holds(h)' = Lease!Holds(h)
  <2> SUFFICES ASSUME NEW h \in Groups \ {g}
               PROVE  group'[h] = group[h] /\ Lease!Holds(h)' = Lease!Holds(h)
    OBVIOUS
  <2>1. group'[h] = group[h]
    BY DEF LeasesInv, Lease!Set
  <2>2. \A c \in Channels : lease'[c] = h <=> lease[c] = h
    BY NobodyAssumption
  <2> QED BY <2>1, <2>2 DEF Lease!Holds
<1>2. group'[g] = r /\ DOMAIN group' = Groups
  BY DEF LeasesInv, Lease!Set
<1>3. ended => \A c \in Channels : lease'[c] = Nobody
  BY DEF LeasesInv
<1>4. ASSUME NEW h \in Groups
      PROVE  /\ GroupTypeOK(group'[h])
             /\ Lease!Holds(h)' \subseteq Claims(group'[h])
             /\ group'[h].at \in {"granted", "held"} /\ ~ended'
                   => Claims(group'[h]) \subseteq Lease!Holds(h)'
  BY <1>1, <1>2 DEF LeasesInv
<1> QED BY <1>2, <1>3, <1>4 DEF LeasesInv

\* The next channel of a group that holds what it has taken, and no more.
LEMMA AskNextKeeps ==
    ASSUME LeasesInv, NEW g \in Groups, NEW r, Lease!AskNext(g, r), UNCHANGED ended,
           r \in [at : Stages, roles : Seq(Channels), taken : Seq(Channels), stuck : SUBSET Channels],
           r.stuck = {}, Len(r.taken) < Len(r.roles), \A i \in 1 .. Len(r.taken) : r.taken[i] = r.roles[i],
           Lease!Holds(g) \subseteq {r.taken[i] : i \in 1 .. Len(r.taken)},
           ~ended => {r.taken[i] : i \in 1 .. Len(r.taken)} \subseteq Lease!Holds(g)
    PROVE  LeasesInv'
<1> DEFINE n == Len(r.taken)
           c == r.roles[n + 1]
<1>1. /\ r \in [at : Stages, roles : Seq(Channels), taken : Seq(Channels), stuck : SUBSET Channels]
      /\ n \in Nat /\ n < Len(r.roles) /\ \A i \in 1 .. n : r.taken[i] = r.roles[i]
  OBVIOUS
<1>2. c \in Channels
  BY <1>1
<1>3. CASE /\ ~ended /\ lease[c] = Nobody
           /\ lease' = [lease EXCEPT ![c] = g] /\ Lease!Set(g, [r EXCEPT !.at = "granted"])
  <2> DEFINE q == [r EXCEPT !.at = "granted"]
  <2>1. q.at = "granted" /\ q.roles = r.roles /\ q.taken = r.taken /\ q.stuck = {}
    BY <1>1
  <2>2. Lease!Holds(g)' = Lease!Holds(g) \cup {c}
    BY <1>2, <1>3 DEF Lease!Holds, LeasesInv
  <2>3. Claims(q) = {r.roles[i] : i \in 1 .. n + 1}
    BY <2>1 DEF Claims
  <2>4. {r.roles[i] : i \in 1 .. n + 1} = {r.taken[i] : i \in 1 .. n} \cup {c}
    BY <1>1
  <2>5. lease' \in [Channels -> Groups \cup {Nobody}]
    BY <1>2, <1>3 DEF LeasesInv
  <2>6. \A d \in Channels : lease'[d] # lease[d] => ~ended /\ {lease[d], lease'[d]} = {g, Nobody}
    BY <1>2, <1>3 DEF LeasesInv
  <2>7. GroupTypeOK(q)
    BY <1>1, <2>1 DEF GroupTypeOK, Stages
  <2>8. Lease!Holds(g)' \subseteq Claims(q) /\ (~ended => Claims(q) \subseteq Lease!Holds(g)')
    BY <2>2, <2>3, <2>4
  <2>9. Lease!Set(g, q)
    BY <1>3
  <2> HIDE DEF q, c, n
  <2> QED BY <2>5, <2>6, <2>7, <2>8, <2>9, OneGroup
<1>4. CASE Lease!Set(g, Lease!RolledBack(r)) /\ UNCHANGED lease
  <2>0. PICK q : q = Lease!RolledBack(r)
    OBVIOUS
  <2>1. /\ q.roles = r.roles /\ q.taken = r.taken /\ q.stuck = {}
        /\ q.at = IF r.taken = <<>> THEN "failed" ELSE "rolling-back"
        /\ q \in [at : Stages, roles : Seq(Channels), taken : Seq(Channels), stuck : SUBSET Channels]
    BY <1>1, <2>0 DEF Lease!RolledBack, Stages
  <2>2. GroupTypeOK(q)
    BY <1>1, <2>1 DEF GroupTypeOK
  <2>3. Claims(q) = {r.roles[i] : i \in 1 .. n}
    BY <1>1, <2>1 DEF Claims
  <2>4. {r.taken[i] : i \in 1 .. n} = {r.roles[i] : i \in 1 .. n}
    BY <1>1
  <2>5. Lease!Holds(g)' = Lease!Holds(g) /\ lease' \in [Channels -> Groups \cup {Nobody}]
    BY <1>4 DEF Lease!Holds, LeasesInv
  <2>6. Lease!Set(g, q) /\ UNCHANGED lease
    BY <1>4, <2>0
  <2>7. /\ Lease!Holds(g)' \subseteq Claims(q)
        /\ ~(q.at \in {"granted", "held"})
        /\ \A d \in Channels : lease'[d] = lease[d]
    BY <2>1, <2>3, <2>4, <2>5, <2>6
  <2> HIDE DEF c
  <2> QED BY <2>2, <2>5, <2>6, <2>7, OneGroup
<1> QED BY <1>3, <1>4 DEF Lease!AskNext

\* A selection of channels is a sequence of them, and not an empty one.
LEMMA Selected ==
    ASSUME NEW s \in Lease!Selections
    PROVE  s \in Seq(Channels) /\ Len(s) > 0
<1>1. PICK m \in 0 .. 3 : s \in [1 .. m -> Channels]
  BY DEF Lease!Selections, Lease!SeqOf
<1>2. s \in Seq(Channels) /\ Len(s) = m
  BY <1>1
<1>3. s # <<>>
  BY DEF Lease!Selections
<1> QED BY <1>2, <1>3

\* Every step of the acquisitions keeps their invariant, action by action.
LEMMA LeasesStep1 == ASSUME LeasesInv, Lease!LeasesNext PROVE LeasesInv'
<1>1. ASSUME NEW g \in Groups, Lease!Acquire(g) PROVE LeasesInv'
  <2>1. PICK s \in Lease!Selections : Lease!AskNext(g, [group[g] EXCEPT !.roles = s])
    BY <1>1 DEF Lease!Acquire
  <2> DEFINE r == [group[g] EXCEPT !.roles = s]
  <2>2. GroupTypeOK(group[g]) /\ group[g].at = "idle" /\ UNCHANGED ended
        /\ Lease!Holds(g) \subseteq Claims(group[g])
    BY <1>1 DEF LeasesInv, Lease!Acquire
  <2>3. /\ r \in [at : Stages, roles : Seq(Channels), taken : Seq(Channels), stuck : SUBSET Channels]
        /\ r.stuck = {} /\ r.taken = <<>> /\ r.roles = s
    BY <2>2, Selected DEF GroupTypeOK
  <2>4. Lease!Holds(g) = {}
    BY <2>2 DEF Claims, GroupTypeOK
  <2>5. Lease!AskNext(g, r)
    BY <2>1
  <2> HIDE DEF r
  <2>6. /\ Len(r.taken) < Len(r.roles) /\ \A i \in 1 .. Len(r.taken) : r.taken[i] = r.roles[i]
        /\ {r.taken[i] : i \in 1 .. Len(r.taken)} = {}
    BY <2>3, Selected
  <2> QED BY <2>2, <2>3, <2>4, <2>5, <2>6, AskNextKeeps
<1>2. ASSUME NEW g \in Groups, Lease!Granted(g) PROVE LeasesInv'
  <2> DEFINE k == Len(group[g].taken)
             r == [group[g] EXCEPT !.taken = Append(@, group[g].roles[Len(@) + 1])]
  <2>1. GroupTypeOK(group[g]) /\ group[g].at = "granted" /\ UNCHANGED ended
        /\ Lease!Holds(g) \subseteq Claims(group[g])
        /\ (~ended => Claims(group[g]) \subseteq Lease!Holds(g))
    BY <1>2 DEF LeasesInv, Lease!Granted
  <2>2. k \in Nat /\ k + 1 \in 1 .. Len(group[g].roles) /\ group[g].roles[k + 1] \in Channels
    BY <2>1 DEF GroupTypeOK
  <2>3. /\ r \in [at : Stages, roles : Seq(Channels), taken : Seq(Channels), stuck : SUBSET Channels]
        /\ r.stuck = {} /\ r.roles = group[g].roles /\ r.at = "granted"
        /\ r.taken = Append(group[g].taken, group[g].roles[k + 1])
    <3>1. Append(group[g].taken, group[g].roles[k + 1]) \in Seq(Channels)
      BY <2>1, <2>2 DEF GroupTypeOK
    <3> QED BY <2>1, <3>1 DEF GroupTypeOK
  <2>4. /\ Len(r.taken) = k + 1 /\ Len(r.taken) <= Len(r.roles)
        /\ \A i \in 1 .. Len(r.taken) : r.taken[i] = r.roles[i]
    BY <2>1, <2>2, <2>3 DEF GroupTypeOK
  <2>5. Claims(group[g]) = {r.taken[i] : i \in 1 .. Len(r.taken)}
    <3>1. Claims(group[g]) = {r.roles[i] : i \in 1 .. Len(r.taken)}
      BY <2>1, <2>3, <2>4 DEF GroupTypeOK, Claims
    <3>2. {r.roles[i] : i \in 1 .. Len(r.taken)} = {r.taken[i] : i \in 1 .. Len(r.taken)}
      BY <2>4
    <3> QED BY <3>1, <3>2
  <2>6. \/ Lease!Set(g, Lease!RolledBack(r)) /\ UNCHANGED lease
        \/ Len(r.taken) = Len(r.roles) /\ Lease!Set(g, [r EXCEPT !.at = "held"]) /\ UNCHANGED lease
        \/ Len(r.taken) < Len(r.roles) /\ Lease!AskNext(g, r)
    BY <1>2 DEF Lease!Granted
  <2> HIDE DEF r, k
  <2>7. CASE Lease!Set(g, Lease!RolledBack(r)) /\ UNCHANGED lease
    <3>0. PICK q : q = Lease!RolledBack(r)
      OBVIOUS
    <3>1. /\ q.roles = r.roles /\ q.taken = r.taken /\ q.stuck = {} /\ q.at = "rolling-back"
          /\ q \in [at : Stages, roles : Seq(Channels), taken : Seq(Channels), stuck : SUBSET Channels]
      <4>1. r.taken # <<>>
        BY <2>2, <2>3, <2>4
      <4> QED BY <2>3, <3>0, <4>1 DEF Lease!RolledBack, Stages
    <3>2. GroupTypeOK(q)
      <4>1. q.taken # <<>>
        BY <2>2, <2>4, <3>1
      <4> QED BY <2>4, <3>1, <4>1 DEF GroupTypeOK
    <3>3. Claims(q) = {r.taken[i] : i \in 1 .. Len(r.taken)}
      BY <2>4, <3>1 DEF Claims
    <3>4. Lease!Holds(g)' = Lease!Holds(g) /\ lease' \in [Channels -> Groups \cup {Nobody}]
      BY <2>7 DEF Lease!Holds, LeasesInv
    <3>5. Lease!Holds(g)' \subseteq Claims(q) /\ ~(q.at \in {"granted", "held"})
      BY <2>1, <2>5, <3>1, <3>3, <3>4
    <3> QED BY <2>1, <2>7, <3>0, <3>2, <3>4, <3>5, OneGroup
  <2>8. CASE Len(r.taken) = Len(r.roles) /\ Lease!Set(g, [r EXCEPT !.at = "held"]) /\ UNCHANGED lease
    <3>0. PICK q : q = [r EXCEPT !.at = "held"]
      OBVIOUS
    <3>1. /\ q.roles = r.roles /\ q.taken = r.taken /\ q.stuck = {} /\ q.at = "held"
          /\ q \in [at : Stages, roles : Seq(Channels), taken : Seq(Channels), stuck : SUBSET Channels]
      BY <2>3, <3>0 DEF Stages
    <3>2. GroupTypeOK(q)
      BY <2>2, <2>4, <2>8, <3>1 DEF GroupTypeOK
    <3>3. Claims(q) = {r.taken[i] : i \in 1 .. Len(r.taken)}
      BY <2>4, <3>1 DEF Claims
    <3>4. Lease!Holds(g)' = Lease!Holds(g) /\ lease' \in [Channels -> Groups \cup {Nobody}]
      BY <2>8 DEF Lease!Holds, LeasesInv
    <3>5. Lease!Holds(g)' \subseteq Claims(q) /\ (~ended => Claims(q) \subseteq Lease!Holds(g)')
      BY <2>1, <2>5, <3>3, <3>4
    <3> QED BY <2>1, <2>8, <3>0, <3>2, <3>4, <3>5, OneGroup
  <2>9. CASE Len(r.taken) < Len(r.roles) /\ Lease!AskNext(g, r)
    BY <2>1, <2>3, <2>4, <2>5, <2>9, AskNextKeeps
  <2> QED BY <2>6, <2>7, <2>8, <2>9
<1>3. ASSUME NEW g \in Groups, Lease!Release(g) PROVE LeasesInv'
  <2>0. PICK q : q = [group[g] EXCEPT !.at = "releasing"]
    OBVIOUS
  <2>1. GroupTypeOK(group[g]) /\ group[g].at = "held" /\ UNCHANGED <<lease, ended>>
        /\ Lease!Holds(g) \subseteq Claims(group[g]) /\ Lease!Set(g, q)
    BY <1>3, <2>0 DEF LeasesInv, Lease!Release
  <2>2. /\ q.roles = group[g].roles /\ q.taken = group[g].taken /\ q.stuck = group[g].stuck
        /\ q.at = "releasing"
        /\ q \in [at : Stages, roles : Seq(Channels), taken : Seq(Channels), stuck : SUBSET Channels]
    BY <2>0, <2>1 DEF GroupTypeOK, Stages
  <2>3. GroupTypeOK(q)
    BY <2>1, <2>2 DEF GroupTypeOK
  <2>4. Lease!Holds(g)' \subseteq Claims(q) /\ ~(q.at \in {"granted", "held"})
    BY <2>1, <2>2 DEF Claims, Lease!Holds
  <2>5. lease' \in [Channels -> Groups \cup {Nobody}]
    BY <2>1 DEF LeasesInv
  <2> QED BY <2>1, <2>3, <2>4, <2>5, OneGroup
<1>4. ASSUME NEW g \in Groups, Lease!Returned(g) PROVE LeasesInv'
  <2> DEFINE k == Len(group[g].taken)
             c == Lease!Last(group[g].taken)
             rest == Lease!Front(group[g].taken)
  <2>1. GroupTypeOK(group[g]) /\ group[g].at \in {"releasing", "rolling-back"} /\ UNCHANGED ended
        /\ Lease!Holds(g) \subseteq Claims(group[g])
    BY <1>4 DEF LeasesInv, Lease!Returned
  <2>2. k \in Nat /\ k > 0 /\ k <= Len(group[g].roles) /\ c = group[g].roles[k] /\ c \in Channels
    BY <2>1 DEF GroupTypeOK, Lease!Last
  <2>3. /\ rest \in Seq(Channels) /\ Len(rest) = k - 1
        /\ \A i \in 1 .. k - 1 : rest[i] = group[g].taken[i]
    BY <2>1, <2>2 DEF GroupTypeOK, Lease!Front
  <2>4. Claims(group[g]) \subseteq {group[g].roles[i] : i \in 1 .. k - 1} \cup {c} \cup group[g].stuck
    <3>1. Claims(group[g]) = {group[g].roles[i] : i \in 1 .. k} \cup group[g].stuck
      <4>1. Len(group[g].taken) + (IF group[g].at = "granted" THEN 1 ELSE 0) = k
        <5>1. group[g].at # "granted"
          BY <2>1
        <5>2. Len(group[g].taken) \in Nat
          BY <2>2
        <5> QED BY <5>1, <5>2
      <4> HIDE DEF k, c, rest
      <4> QED BY <4>1 DEF Claims
    <3>2. \A i \in 1 .. k : i \in 1 .. k - 1 \/ i = k
      BY <2>2
    <3> QED BY <2>2, <3>1, <3>2
  <2>5a. PICK failed \in BOOLEAN : \E q :
          /\ q = [group[g] EXCEPT !.taken = rest, !.stuck = IF failed THEN @ \cup {c} ELSE @,
                                  !.at = IF rest # <<>> THEN @
                                         ELSE IF @ = "releasing" THEN "released" ELSE "failed"]
          /\ Lease!Set(g, q)
          /\ lease' = IF failed THEN lease ELSE [lease EXCEPT ![c] = IF @ = g THEN Nobody ELSE @]
    <3>1. CASE /\ lease' = [lease EXCEPT ![c] = IF @ = g THEN Nobody ELSE @]
               /\ Lease!Continues(g, group[g], rest)
      BY <2>1, <3>1 DEF GroupTypeOK, Lease!Continues
    <3>2. CASE Lease!Continues(g, [group[g] EXCEPT !.stuck = @ \cup {c}], rest) /\ UNCHANGED lease
      BY <2>1, <3>2 DEF GroupTypeOK, Lease!Continues
    <3> QED BY <1>4, <3>1, <3>2 DEF Lease!Returned
  <2>5. PICK q :
          /\ q = [group[g] EXCEPT !.taken = rest, !.stuck = IF failed THEN @ \cup {c} ELSE @,
                                  !.at = IF rest # <<>> THEN @
                                         ELSE IF @ = "releasing" THEN "released" ELSE "failed"]
          /\ Lease!Set(g, q)
          /\ lease' = IF failed THEN lease ELSE [lease EXCEPT ![c] = IF @ = g THEN Nobody ELSE @]
    BY <2>5a
  <2> HIDE DEF k, c, rest
  <2>6. /\ q.roles = group[g].roles /\ q.taken = rest
        /\ q.stuck = IF failed THEN group[g].stuck \cup {c} ELSE group[g].stuck
        /\ q.at = IF rest # <<>> THEN group[g].at
                  ELSE IF group[g].at = "releasing" THEN "released" ELSE "failed"
        /\ q \in [at : Stages, roles : Seq(Channels), taken : Seq(Channels), stuck : SUBSET Channels]
    BY <2>1, <2>2, <2>3, <2>5 DEF GroupTypeOK, Stages
  <2>7. GroupTypeOK(q) /\ q.at \notin {"granted", "held"}
    <3>1. /\ k = Len(group[g].taken) /\ Len(group[g].roles) \in Nat
          /\ \A i \in 1 .. k : group[g].taken[i] = group[g].roles[i]
      BY <2>1 DEF GroupTypeOK, k
    <3>2. Len(q.taken) <= Len(q.roles) /\ \A i \in 1 .. Len(q.taken) : q.taken[i] = q.roles[i]
      <4>1. Len(q.taken) = k - 1 /\ k - 1 <= Len(q.roles)
        BY <2>2, <2>3, <2>6, <3>1
      <4>2. \A i \in 1 .. k - 1 : i \in 1 .. k
        BY <2>2
      <4> QED BY <2>3, <2>6, <3>1, <4>1, <4>2
    <3>3. q.at \in {"rolling-back", "releasing"} => q.taken # <<>>
      BY <2>1, <2>6
    <3>4. q.at \in {"released", "failed"} => q.taken = <<>>
      BY <2>1, <2>6
    <3>5. q.at \notin {"idle", "granted", "held"}
      BY <2>1, <2>6
    <3> QED BY <2>6, <3>2, <3>3, <3>4, <3>5 DEF GroupTypeOK
  <2>8. Claims(q) = {group[g].roles[i] : i \in 1 .. k - 1} \cup q.stuck
    BY <2>3, <2>6, <2>7 DEF Claims
  <2>9. lease' \in [Channels -> Groups \cup {Nobody}]
    BY <2>2, <2>5 DEF LeasesInv
  <2>10. \A d \in Channels : lease'[d] # lease[d] => ~ended /\ {lease[d], lease'[d]} = {g, Nobody}
    BY <2>2, <2>5, NobodyAssumption DEF LeasesInv
  <2>11. Lease!Holds(g)' \subseteq Claims(q)
    <3>1. CASE failed
      BY <2>1, <2>4, <2>5, <2>6, <2>8, <3>1 DEF Lease!Holds
    <3>2. CASE ~failed
      <4>1. Lease!Holds(g)' = Lease!Holds(g) \ {c}
        BY <2>2, <2>5, <3>2, NobodyAssumption DEF Lease!Holds, LeasesInv
      <4> QED BY <2>1, <2>4, <2>6, <2>8, <3>2, <4>1
    <3> QED BY <3>1, <3>2
  <2> QED BY <2>1, <2>5, <2>7, <2>9, <2>10, <2>11, OneGroup
<1>5. CASE Lease!End
  <2>1. \A g \in Groups : Lease!Holds(g)' = {}
    BY <1>5, NobodyAssumption DEF Lease!End, Lease!Holds
  <2>2. UNCHANGED group /\ ended' = TRUE /\ lease' = [c \in Channels |-> Nobody]
    BY <1>5 DEF Lease!End
  <2>3. lease' \in [Channels -> Groups \cup {Nobody}] /\ \A c \in Channels : lease'[c] = Nobody
    BY <2>2
  <2> QED BY <2>1, <2>2, <2>3 DEF LeasesInv
<1> QED BY <1>1, <1>2, <1>3, <1>4, <1>5 DEF Lease!LeasesNext

\* The acquisitions' invariant holds throughout.
LEMMA LeasesHold == Spec => [](kind = "leases" => LeasesInv)
<1>1. Init => (kind = "leases" => LeasesInv)
  <2>1. Init /\ kind = "leases" => Lease!LeasesInit
    BY DEF Init, Starts
  <2>2. Lease!LeasesInit => \A g \in Groups : GroupTypeOK(group[g]) /\ Lease!Holds(g) = {}
    BY NobodyAssumption DEF Lease!LeasesInit, Lease!Holds, GroupTypeOK, Stages
  <2>3. Lease!LeasesInit => DOMAIN group = Groups /\ \A g \in Groups : group[g].at = "idle"
    BY DEF Lease!LeasesInit
  <2> QED BY <2>1, <2>2, <2>3 DEF Lease!LeasesInit, LeasesInv
<1>2. (kind = "leases" => LeasesInv) /\ [Next]_vars => (kind = "leases" => LeasesInv)'
  <2> SUFFICES ASSUME kind = "leases" => LeasesInv, [Next]_vars, kind' = "leases"
               PROVE  LeasesInv'
    OBVIOUS
  <2>1. CASE LinkStep
    BY <2>1 DEF LinkStep, NodeSerialStep, BrowserSerialStep, NodeUsbStep, BrowserUsbStep
  <2>2. CASE OpeningStep
    BY <2>2 DEF OpeningStep
  <2>3. CASE LeasesStep
    BY <2>3, LeasesStep1 DEF LeasesStep
  <2>4. CASE UNCHANGED vars
    BY <2>4 DEF vars, leases, LeasesInv, Lease!Holds
  <2> QED BY <2>1, <2>2, <2>3, <2>4 DEF Next
<1> QED BY <1>1, <1>2, PTL DEF Spec

\* An acquisition that answered holds every channel it asked for; one that
\* failed or was released holds none but those it could not give back.
LEMMA LeasesAccounted == LeasesInv => Lease!AllOrNone
<1> SUFFICES ASSUME LeasesInv, NEW g \in Groups
             PROVE  /\ group[g].at = "held" /\ ~ended => Lease!Holds(g) = Lease!Range(group[g].roles)
                    /\ group[g].at \in {"idle", "released", "failed"} => Lease!Holds(g) \subseteq group[g].stuck
  BY DEF Lease!AllOrNone
<1>1. GroupTypeOK(group[g]) /\ Lease!Holds(g) \subseteq Claims(group[g])
  BY DEF LeasesInv
<1>2. CASE group[g].at = "held" /\ ~ended
  <2>1. Claims(group[g]) = Lease!Range(group[g].roles)
    BY <1>1, <1>2 DEF GroupTypeOK, Claims, Lease!Range
  <2> QED BY <1>1, <1>2, <2>1 DEF LeasesInv
<1>3. CASE group[g].at \in {"idle", "released", "failed"}
  <2>1. Len(group[g].taken) = 0 /\ group[g].at # "granted"
    BY <1>1, <1>3 DEF GroupTypeOK
  <2>2. Claims(group[g]) = group[g].stuck
    BY <2>1 DEF Claims
  <2> QED BY <1>1, <1>3, <2>2
<1> QED BY <1>2, <1>3

\* DevicesAccounted: whatever way an open() or an acquisition ends, what it
\* reports and what is still held at the device agree.
THEOREM TransportsDevicesAccounted == Spec => []DevicesAccounted
BY OpeningHolds, OpeningAccounted, LeasesHold, LeasesAccounted, PTL DEF DevicesAccounted

-----------------------------------------------------------------------------

\* What write() may have told its caller.
Receipts == {"none", "pending", "accepted-by-platform", "may-be-partial", "rejected"}

\* One step of a connection, as ByteConnection allows it, on the records before and after.
StepOf(r, s) ==
    /\ \/ s.ended = r.ended
       \/ /\ r.place = "live" /\ r.ended = NoEnding /\ s.ended \in Endings
          /\ s.ended = "closed-by-host" => r.closer # "none" \/ s.closer # "none"
    /\ \/ ((s.fd # "none") <=> (r.fd # "none"))
       \/ s.fd # "none" /\ r.place # "live"
       \/ s.fd = "none" /\ (r.place = "live" => r.closer # "none" \/ s.ended # NoEnding)
    /\ \/ s.receipt = r.receipt
       \/ /\ s.receipt \in {"pending", "rejected"} /\ r.receipt = "none"
          /\ r.place = "live" /\ r.ended = NoEnding /\ ~r.reading
       \/ r.receipt = "pending" /\ s.receipt = "may-be-partial"
       \/ r.receipt = "pending" /\ s.receipt = "accepted-by-platform" /\ r.flight = "taken"
       \/ r.receipt \notin {"none", "pending"} /\ s.receipt = "none"
    /\ s.heard > r.heard => s.ended = NoEnding
    /\ s.ended # NoEnding => s.heard = 0 /\ ~s.reading
    /\ s.reading /\ ~r.reading => r.receipt # "pending" /\ r.place = "live"
    /\ \/ ((s.closer = "answered") <=> (r.closer = "answered"))
       \/ /\ r.closer # "none" \/ s.closer # "none"
          /\ s.ended # NoEnding
          /\ s.fd # "none" => s.refused \/ s.fd = "dying"
    /\ r.place = "live" => s.place = "live"
    /\ r.closer # "none" => s.closer # "none" /\ r.place = "live"
    /\ r.closer = "answered" => s.closer = "answered"

\* A step of one connection that StepOf allows is a step of the contract, when
\* the device was free or is not taken by it.
LEMMA Lifted ==
    ASSUME DOMAIN conn = Conns, NEW c \in Conns, conn' = [conn EXCEPT ![c] = conn'[c]],
           StepOf(conn[c], conn'[c]),
           conn[c].fd = "none" /\ conn'[c].fd # "none" => Unheld(c)
    PROVE  Contract!Next
<1>1. \A d \in Conns \ {c} : conn'[d] = conn[d]
  OBVIOUS
<1>2. Contract!Others(c)
  BY <1>1 DEF Contract!Others
<1>3. Contract!Ending(c)
  BY DEF Contract!Ending, StepOf, Endings
<1>4. Contract!Holding(c)
  BY DEF Contract!Holding, StepOf, Unheld
<1>5. Contract!Writing(c)
  BY DEF Contract!Writing, StepOf
<1>6. Contract!Hearing(c)
  BY DEF Contract!Hearing, StepOf
<1>7. Contract!Answering(c)
  BY DEF Contract!Answering, StepOf
<1>8. Contract!Step(c)
  BY <1>3, <1>4, <1>5, <1>6, <1>7 DEF Contract!Step, StepOf
<1> QED BY <1>2, <1>8 DEF Contract!Next

\* The part of a connection the contract reads.
Facets == {"place", "fd", "ended", "closer", "receipt", "flight", "reading", "heard", "refused"}

\* The records agree on it, outside the given fields.
Same(r, s, changed) == \A f \in Facets \ changed : s[f] = r[f]

\* What every adapter's record satisfies of it.
Sound(r) == /\ r.heard \in Nat
            /\ r.ended # NoEnding => r.heard = 0 /\ ~r.reading
            /\ r.closer # "none" => r.place = "live"

\* A step of one connection that its invariant allows.
LEMMA Quiet ==
    ASSUME NEW r, NEW s, Sound(r), Same(r, s, {"place", "flight", "refused"}),
           r.place = "live" => s.place = "live"
    PROVE  StepOf(r, s)
BY DEF Sound, StepOf, Same, Facets

\* A step from a record that differs in the handle, held in both.
LEMMA StaysHeld ==
    ASSUME NEW q, NEW r, NEW s, Same(q, r, {"fd"}), q.fd # "none", r.fd # "none", StepOf(r, s)
    PROVE  StepOf(q, s)
BY DEF StepOf, Same, Facets

\* A step from a record that the contract cannot tell apart.
LEMMA StepFrom ==
    ASSUME NEW q, NEW r, NEW s, Same(q, r, {}), StepOf(r, s)
    PROVE  StepOf(q, s)
BY DEF StepOf, Same, Facets

-----------------------------------------------------------------------------
\* The invariant of one Node USB connection.
NodeUsbRecord(r) ==
    /\ r \in [place : {"idle", "opening", "claimed", "live", "failed"}, fd : {"none", "open"},
              ended : Endings \cup {NoEnding}, closer : {"none", "cancelling", "releasing", "answered"},
              hostClosing : BOOLEAN, wake : Int, receipt : Receipts,
              flight : {"none", "sent", "taken"}, reading : {FALSE}, heard : Nat,
              refused : BOOLEAN, owed : Int, input : BOOLEAN, awaited : SUBSET {"in", "out"}]
    /\ r.closer # "none" => r.place = "live"
    /\ r.ended # NoEnding => r.heard = 0
    /\ r.place \in {"claimed", "live"} /\ r.closer # "answered" => r.fd = "open"
    /\ r.flight # "none" => r.receipt = "pending"

\* One Node USB connection takes a step that its invariant and the contract allow.
NodeUsbGoes(c, s) ==
    /\ conn' = [conn EXCEPT ![c] = s] /\ NodeUsbRecord(s) /\ StepOf(conn[c], s)
    /\ conn[c].fd = "none" => s.fd = "none" \/ NU!Unheld(c)

\* It is stronger than Sound.
LEMMA NodeUsbSound == ASSUME NEW r, NodeUsbRecord(r) PROVE Sound(r)
BY DEF NodeUsbRecord, Sound

\* An ending: the first one stays, and the input is discarded with it.
LEMMA NodeUsbFinished ==
    ASSUME NEW r, NodeUsbRecord(r), NEW e \in Endings, NEW s, s = NU!Finished(r, e)
    PROVE  /\ NodeUsbRecord(s) /\ Same(r, s, {"ended", "heard", "reading"})
           /\ \/ r.ended # NoEnding \/ r.place # "live"
              \/ s.ended = e /\ s.heard = 0
           /\ r.ended # NoEnding \/ r.place # "live" => s = r
<1>1. CASE NU!Usable(r)
  <2>1. NU!Larger(r.owed, NU!SilenceOf(e)) \in Int
    BY SilenceAssumption DEF NodeUsbRecord, NU!Larger, NU!SilenceOf
  <2> QED BY <1>1, <2>1 DEF NU!Finished, NU!Usable, NodeUsbRecord, Same, Facets
<1>2. CASE ~NU!Usable(r)
  BY <1>2 DEF NU!Finished, NU!Usable, Same
<1> QED BY <1>1, <1>2

\* A close() that is asked for, or made again.
LEMMA NodeUsbClosed ==
    ASSUME NEW r, NodeUsbRecord(r), r.place = "live", NEW s, s = NU!Closed(r)
    PROVE  /\ NodeUsbRecord(s) /\ Same(r, s, {"closer"}) /\ s.closer # "none"
           /\ s.closer = "answered" <=> r.closer = "answered"
<1>1. CASE r.closer = "none"
  <2>1. NU!InFlight(r) \in SUBSET {"in", "out"}
    BY DEF NU!InFlight
  <2> QED BY <1>1, <2>1 DEF NU!Closed, NU!Closing, NodeUsbRecord, Same, Facets
<1>2. CASE r.closer # "none"
  BY <1>2 DEF NU!Closed, NU!Closing, Same
<1> QED BY <1>1, <1>2

\* An ending that the host did not ask for.
LEMMA NodeUsbEnded ==
    ASSUME NEW r, NodeUsbRecord(r), NEW e \in Endings \ {"closed-by-host"},
           NEW s, s = NU!EndedAndClosed(r, e)
    PROVE  NodeUsbRecord(s) /\ StepOf(r, s) /\ Same(r, s, {"ended", "heard", "reading", "closer"})
<1>1. CASE ~NU!Usable(r)
  <2>1. s = r
    BY <1>1 DEF NU!EndedAndClosed
  <2> QED BY <2>1, Quiet, NodeUsbSound DEF Same
<1>2. CASE NU!Usable(r)
  <2>1. PICK q : q = NU!Finished(r, e)
    OBVIOUS
  <2>2. s = NU!Closed(q)
    BY <1>2, <2>1 DEF NU!EndedAndClosed
  <2>3. /\ NodeUsbRecord(q) /\ Same(r, q, {"ended", "heard", "reading"}) /\ q.place = "live"
        /\ q.ended = e /\ q.heard = 0 /\ r.ended = NoEnding /\ r.place = "live"
    BY <1>2, <2>1, NodeUsbFinished DEF NU!Usable, Same, Facets
  <2>4. /\ NodeUsbRecord(s) /\ Same(q, s, {"closer"}) /\ s.closer # "none"
        /\ s.closer = "answered" <=> q.closer = "answered"
    BY <2>2, <2>3, NodeUsbClosed
  <2>5. ~s.reading
    BY <2>4 DEF NodeUsbRecord
  <2> QED BY <2>3, <2>4, <2>5, EndingAssumption, NodeUsbSound DEF StepOf, Same, Facets, Sound
<1> QED BY <1>1, <1>2

\* An input transfer that has ended.
LEMMA NodeUsbArrived ==
    ASSUME NEW r, NodeUsbRecord(r), NEW s, s = NU!Arrived(r)
    PROVE  NodeUsbRecord(s) /\ Same(r, s, {})
<1>1. r.awaited \ {"in"} \in SUBSET {"in", "out"}
  BY DEF NodeUsbRecord
<1> QED BY <1>1 DEF NU!Arrived, NodeUsbRecord, Same, Facets

\* open() and the input transfers of a Node USB connection.
LEMMA NodeUsbStep1 ==
    ASSUME NEW c \in Conns, c \in DOMAIN conn, NodeUsbRecord(conn[c])
    PROVE  /\ NU!Open(c) => \E s : NodeUsbGoes(c, s)
           /\ NU!NativeOpened(c) => \E s : NodeUsbGoes(c, s)
           /\ NU!Ready(c) => \E s : NodeUsbGoes(c, s)
           /\ NU!OpenFails(c) => \E s : NodeUsbGoes(c, s)
           /\ NU!InputArrives(c) => \E s : NodeUsbGoes(c, s)
           /\ NU!InputEmpty(c) => \E s : NodeUsbGoes(c, s)
           /\ NU!InputFails(c) => \E s : NodeUsbGoes(c, s)
<1>0. Sound(conn[c])
  BY NodeUsbSound
<1>1. ASSUME NU!Open(c) PROVE \E s : NodeUsbGoes(c, s)
  <2>1. PICK s : s = [conn[c] EXCEPT !.place = "opening"]
    OBVIOUS
  <2>2. NodeUsbRecord(s) /\ Same(conn[c], s, {"place"}) /\ conn[c].place = "idle"
    BY <1>1, <2>1 DEF NU!Open, NodeUsbRecord, Same, Facets
  <2>3. StepOf(conn[c], s) /\ s.fd = conn[c].fd
    BY <1>0, <2>2, Quiet DEF Same, Facets
  <2> QED BY <1>1, <2>1, <2>2, <2>3 DEF NodeUsbGoes, NU!Open, NU!Set
<1>2. ASSUME NU!NativeOpened(c) PROVE \E s : NodeUsbGoes(c, s)
  <2>1. PICK s : \/ NU!Unheld(c) /\ s = [conn[c] EXCEPT !.place = "claimed", !.fd = "open"] /\ NU!Set(c, s)
                 \/ s = [conn[c] EXCEPT !.place = "failed"] /\ NU!Set(c, s)
    BY <1>2 DEF NU!NativeOpened
  <2>2. NodeUsbRecord(s) /\ Same(conn[c], s, {"place", "fd"}) /\ conn[c].place = "opening"
    BY <1>2, <2>1 DEF NU!NativeOpened, NodeUsbRecord, Same, Facets
  <2>4. s.fd = conn[c].fd \/ NU!Unheld(c)
    BY <2>1 DEF NodeUsbRecord
  <2>3. StepOf(conn[c], s)
    BY <1>0, <2>2 DEF Same, Facets, Sound, StepOf
  <2> QED BY <2>1, <2>2, <2>3, <2>4 DEF NodeUsbGoes, NU!Set
<1>3. ASSUME NU!Ready(c) PROVE \E s : NodeUsbGoes(c, s)
  <2>1. PICK s : s = [conn[c] EXCEPT !.place = "live", !.input = TRUE]
    OBVIOUS
  <2>2. NodeUsbRecord(s) /\ Same(conn[c], s, {"place"}) /\ s.place = "live"
    BY <1>3, <2>1 DEF NU!Ready, NodeUsbRecord, Same, Facets
  <2>3. StepOf(conn[c], s) /\ s.fd = conn[c].fd
    BY <1>0, <2>2, Quiet DEF Same, Facets
  <2> QED BY <1>3, <2>1, <2>2, <2>3 DEF NodeUsbGoes, NU!Ready, NU!Set
<1>4. ASSUME NU!OpenFails(c) PROVE \E s : NodeUsbGoes(c, s)
  <2>1a. PICK fd \in {"none", "open"} : \E s :
          /\ s = [conn[c] EXCEPT !.place = "failed", !.fd = fd, !.refused = (fd = "open")]
          /\ NU!Set(c, s)
    BY <1>4 DEF NU!OpenFails
  <2>1. PICK s :
          /\ s = [conn[c] EXCEPT !.place = "failed", !.fd = fd, !.refused = (fd = "open")]
          /\ NU!Set(c, s)
    BY <2>1a
  <2>2. NodeUsbRecord(s) /\ Same(conn[c], s, {"place", "fd", "refused"}) /\ conn[c].place = "claimed"
    BY <1>4, <2>1 DEF NU!OpenFails, NodeUsbRecord, Same, Facets
  <2>3. StepOf(conn[c], s) /\ conn[c].fd = "open"
    BY <1>0, <2>2 DEF Same, Facets, Sound, StepOf, NodeUsbRecord
  <2> QED BY <2>1, <2>2, <2>3 DEF NodeUsbGoes, NU!Set
<1>5. ASSUME NU!InputArrives(c) PROVE \E s : NodeUsbGoes(c, s)
  <2>1. PICK r : r = NU!Arrived(conn[c])
    OBVIOUS
  <2>2. NodeUsbRecord(r) /\ Same(conn[c], r, {})
    BY <2>1, NodeUsbArrived
  <2>3. \/ NU!Set(c, r)
        \/ NU!Set(c, NU!EndedAndClosed(r, "receive-overflow"))
        \/ r.ended = NoEnding /\ NU!Set(c, [r EXCEPT !.heard = @ + 1, !.input = TRUE])
    BY <1>5, <2>1 DEF NU!InputArrives, NU!Usable
  <2>4. CASE NU!Set(c, r)
    BY <1>0, <2>2, <2>4, Quiet DEF NodeUsbGoes, NU!Set, Same, Facets
  <2>5. CASE NU!Set(c, NU!EndedAndClosed(r, "receive-overflow"))
    <3>1. PICK s : s = NU!EndedAndClosed(r, "receive-overflow")
      OBVIOUS
    <3>2. NodeUsbRecord(s) /\ StepOf(r, s) /\ s.fd = r.fd
      BY <2>2, <3>1, NodeUsbEnded DEF Endings, Same, Facets
    <3>3. StepOf(conn[c], s) /\ s.fd = conn[c].fd
      BY <2>2, <3>2, StepFrom DEF Same, Facets
    <3> QED BY <2>5, <3>1, <3>2, <3>3 DEF NodeUsbGoes, NU!Set
  <2>6. CASE r.ended = NoEnding /\ NU!Set(c, [r EXCEPT !.heard = @ + 1, !.input = TRUE])
    <3>1. PICK s : s = [r EXCEPT !.heard = @ + 1, !.input = TRUE]
      OBVIOUS
    <3>4. r.heard + 1 \in Nat
      BY <2>2 DEF NodeUsbRecord
    <3>2. NodeUsbRecord(s) /\ Same(r, s, {"heard"})
      BY <2>2, <2>6, <3>1, <3>4 DEF NodeUsbRecord, Same, Facets
    <3>3. StepOf(conn[c], s) /\ s.fd = conn[c].fd
      BY <1>0, <2>2, <2>6, <3>2 DEF StepOf, Same, Facets, Sound
    <3> QED BY <2>6, <3>1, <3>2, <3>3 DEF NodeUsbGoes, NU!Set
  <2> QED BY <2>3, <2>4, <2>5, <2>6
<1>6. ASSUME NU!InputEmpty(c) PROVE \E s : NodeUsbGoes(c, s)
  <2>1. PICK r : r = NU!Arrived(conn[c])
    OBVIOUS
  <2>2. NodeUsbRecord(r) /\ Same(conn[c], r, {})
    BY <2>1, NodeUsbArrived
  <2>3. PICK s : s = [r EXCEPT !.input = NU!Usable(r) /\ ~NU!Closing(r)] /\ NU!Set(c, s)
    BY <1>6, <2>1 DEF NU!InputEmpty
  <2>4. (NU!Usable(r) /\ ~NU!Closing(r)) \in BOOLEAN
    BY DEF NU!Usable, NU!Closing
  <2>5. NodeUsbRecord(s) /\ Same(r, s, {})
    BY <2>2, <2>3, <2>4 DEF NodeUsbRecord, Same, Facets
  <2>6. StepOf(conn[c], s) /\ s.fd = conn[c].fd
    BY <1>0, <2>2, <2>5, Quiet DEF Same, Facets
  <2> QED BY <2>3, <2>5, <2>6 DEF NodeUsbGoes, NU!Set
<1>7. ASSUME NU!InputFails(c) PROVE \E s : NodeUsbGoes(c, s)
  <2>1a. PICK e \in {"device-lost", "fault"} : \E r :
          /\ r = NU!Arrived(conn[c])
          /\ NU!Set(c, IF NU!Closing(r) THEN r ELSE NU!EndedAndClosed(r, e))
    BY <1>7 DEF NU!InputFails
  <2>1. PICK r :
          /\ r = NU!Arrived(conn[c])
          /\ NU!Set(c, IF NU!Closing(r) THEN r ELSE NU!EndedAndClosed(r, e))
    BY <2>1a
  <2>2. NodeUsbRecord(r) /\ Same(conn[c], r, {})
    BY <2>1, NodeUsbArrived
  <2>3. CASE NU!Set(c, r)
    BY <1>0, <2>2, <2>3, Quiet DEF NodeUsbGoes, NU!Set, Same, Facets
  <2>4. CASE NU!Set(c, NU!EndedAndClosed(r, e))
    <3>1. PICK s : s = NU!EndedAndClosed(r, e)
      OBVIOUS
    <3>2. NodeUsbRecord(s) /\ StepOf(r, s) /\ s.fd = r.fd
      BY <2>2, <3>1, NodeUsbEnded DEF Endings, Same, Facets
    <3>3. StepOf(conn[c], s) /\ s.fd = conn[c].fd
      BY <2>2, <3>2, StepFrom DEF Same, Facets
    <3> QED BY <2>4, <3>1, <3>2, <3>3 DEF NodeUsbGoes, NU!Set
  <2> QED BY <2>1, <2>3, <2>4
<1> QED BY <1>1, <1>2, <1>3, <1>4, <1>5, <1>6, <1>7

\* Its reads, its writes, its endings and its close().
LEMMA NodeUsbStep2 ==
    ASSUME NEW c \in Conns, c \in DOMAIN conn, NodeUsbRecord(conn[c])
    PROVE  /\ NU!Read(c) => \E s : NodeUsbGoes(c, s)
           /\ NU!Collect(c) => \E s : NodeUsbGoes(c, s)
           /\ NU!PlatformTakes(c) => \E s : NodeUsbGoes(c, s)
           /\ NU!Write(c) => \E s : NodeUsbGoes(c, s)
           /\ NU!WriteRefused(c) => \E s : NodeUsbGoes(c, s)
           /\ NU!OutputSettles(c) => \E s : NodeUsbGoes(c, s)
           /\ NU!Close(c) => \E s : NodeUsbGoes(c, s)
           /\ NU!Invalidate(c, "fault") => \E s : NodeUsbGoes(c, s)
           /\ NU!TransfersSettled(c) => \E s : NodeUsbGoes(c, s)
           /\ NU!DeviceClosed(c) => \E s : NodeUsbGoes(c, s)
<1>0. Sound(conn[c])
  BY NodeUsbSound
<1>1. ASSUME NU!Read(c) PROVE \E s : NodeUsbGoes(c, s)
  <2>1. PICK s : s = [conn[c] EXCEPT !.heard = @ - 1]
    OBVIOUS
  <2>4. conn[c].heard - 1 \in Nat /\ conn[c].ended = NoEnding
    BY <1>1 DEF NU!Read, NodeUsbRecord
  <2>2. NodeUsbRecord(s) /\ Same(conn[c], s, {"heard"}) /\ s.heard = conn[c].heard - 1
    BY <2>1, <2>4 DEF NodeUsbRecord, Same, Facets
  <2>3. StepOf(conn[c], s) /\ s.fd = conn[c].fd
    BY <1>0, <2>2, <2>4 DEF Same, Facets, StepOf, Sound
  <2> QED BY <1>1, <2>1, <2>2, <2>3 DEF NodeUsbGoes, NU!Read, NU!Set
<1>2. ASSUME NU!Collect(c) PROVE \E s : NodeUsbGoes(c, s)
  <2>1. PICK s : s = [conn[c] EXCEPT !.receipt = "none"]
    OBVIOUS
  <2>2. NodeUsbRecord(s) /\ Same(conn[c], s, {"receipt"}) /\ s.receipt = "none"
    BY <1>2, <2>1 DEF NU!Collect, NodeUsbRecord, Receipts, Same, Facets
  <2>3. StepOf(conn[c], s) /\ s.fd = conn[c].fd
    BY <1>0, <1>2, <2>2 DEF NU!Collect, Same, Facets, StepOf, Sound
  <2> QED BY <1>2, <2>1, <2>2, <2>3 DEF NodeUsbGoes, NU!Collect, NU!Set
<1>3. ASSUME NU!PlatformTakes(c) PROVE \E s : NodeUsbGoes(c, s)
  <2>1. PICK s : s = [conn[c] EXCEPT !.flight = "taken"]
    OBVIOUS
  <2>2. NodeUsbRecord(s) /\ Same(conn[c], s, {"flight"})
    BY <1>3, <2>1 DEF NU!PlatformTakes, NodeUsbRecord, Same, Facets
  <2>3. StepOf(conn[c], s) /\ s.fd = conn[c].fd
    BY <1>0, <2>2, Quiet DEF Same, Facets
  <2> QED BY <1>3, <2>1, <2>2, <2>3 DEF NodeUsbGoes, NU!PlatformTakes, NU!Set
<1>4. ASSUME NU!Write(c) PROVE \E s : NodeUsbGoes(c, s)
  <2>1. PICK s : s = [conn[c] EXCEPT !.receipt = "pending", !.flight = "sent"]
    OBVIOUS
  <2>2. NodeUsbRecord(s) /\ Same(conn[c], s, {"receipt", "flight"}) /\ s.receipt = "pending"
    BY <1>4, <2>1 DEF NU!Write, NodeUsbRecord, Receipts, Same, Facets
  <2>3. ~conn[c].reading
    BY DEF NodeUsbRecord
  <2>4. StepOf(conn[c], s) /\ s.fd = conn[c].fd
    BY <1>0, <1>4, <2>2, <2>3 DEF NU!Write, NU!Usable, Same, Facets, StepOf, Sound
  <2> QED BY <1>4, <2>1, <2>2, <2>4 DEF NodeUsbGoes, NU!Write, NU!Set
<1>5. ASSUME NU!WriteRefused(c) PROVE \E s : NodeUsbGoes(c, s)
  <2>1. PICK s : s = [conn[c] EXCEPT !.receipt = "rejected"]
    OBVIOUS
  <2>2. NodeUsbRecord(s) /\ Same(conn[c], s, {"receipt"}) /\ s.receipt = "rejected"
    BY <1>5, <2>1 DEF NU!WriteRefused, NodeUsbRecord, Receipts, Same, Facets
  <2>3. ~conn[c].reading
    BY DEF NodeUsbRecord
  <2>4. StepOf(conn[c], s) /\ s.fd = conn[c].fd
    BY <1>0, <1>5, <2>2, <2>3 DEF NU!WriteRefused, NU!Usable, Same, Facets, StepOf, Sound
  <2> QED BY <1>5, <2>1, <2>2, <2>4 DEF NodeUsbGoes, NU!WriteRefused, NU!Set
<1>6. ASSUME NU!OutputSettles(c) PROVE \E s : NodeUsbGoes(c, s)
  <2>1a. PICK outcome \in NU!Receipt(conn[c].flight) : \E s :
          /\ s = [conn[c] EXCEPT !.flight = "none", !.receipt = outcome, !.awaited = @ \ {"out"}]
          /\ NU!Set(c, s)
    BY <1>6 DEF NU!OutputSettles
  <2>1. PICK s :
          /\ s = [conn[c] EXCEPT !.flight = "none", !.receipt = outcome, !.awaited = @ \ {"out"}]
          /\ NU!Set(c, s)
    BY <2>1a
  <2>2. /\ outcome \in {"accepted-by-platform", "may-be-partial"}
        /\ outcome = "accepted-by-platform" => conn[c].flight = "taken"
        /\ conn[c].receipt = "pending"
    BY <1>6, <2>1 DEF NU!Receipt, NU!OutputSettles, NodeUsbRecord
  <2>3. conn[c].awaited \ {"out"} \in SUBSET {"in", "out"}
    BY DEF NodeUsbRecord
  <2>4. NodeUsbRecord(s) /\ Same(conn[c], s, {"receipt", "flight"}) /\ s.receipt = outcome
    BY <2>1, <2>2, <2>3 DEF NodeUsbRecord, Receipts, Same, Facets
  <2>5. StepOf(conn[c], s) /\ s.fd = conn[c].fd
    BY <1>0, <2>2, <2>4 DEF Same, Facets, StepOf, Sound
  <2> QED BY <2>1, <2>4, <2>5 DEF NodeUsbGoes, NU!Set
<1>7. ASSUME NU!Close(c) PROVE \E s : NodeUsbGoes(c, s)
  <2>1. PICK s : s = NU!Closed(conn[c])
    OBVIOUS
  <2>2. /\ NodeUsbRecord(s) /\ Same(conn[c], s, {"closer"}) /\ s.closer # "none"
        /\ s.closer = "answered" <=> conn[c].closer = "answered"
    BY <1>7, <2>1, NodeUsbClosed DEF NU!Close
  <2>3. StepOf(conn[c], s) /\ s.fd = conn[c].fd
    BY <1>0, <1>7, <2>2 DEF NU!Close, Same, Facets, StepOf, Sound
  <2> QED BY <1>7, <2>1, <2>2, <2>3 DEF NodeUsbGoes, NU!Close, NU!Set
<1>8. ASSUME NU!Invalidate(c, "fault") PROVE \E s : NodeUsbGoes(c, s)
  <2>1. PICK s : s = NU!EndedAndClosed(conn[c], "fault")
    OBVIOUS
  <2>2. NodeUsbRecord(s) /\ StepOf(conn[c], s) /\ s.fd = conn[c].fd
    BY <2>1, NodeUsbEnded DEF Endings, Same, Facets
  <2> QED BY <1>8, <2>1, <2>2 DEF NodeUsbGoes, NU!Invalidate, NU!Set
<1>9. ASSUME NU!TransfersSettled(c) PROVE \E s : NodeUsbGoes(c, s)
  <2>1. PICK s : s = [conn[c] EXCEPT !.closer = "releasing"]
    OBVIOUS
  <2>2. NodeUsbRecord(s) /\ Same(conn[c], s, {"closer"}) /\ s.closer = "releasing"
    BY <1>9, <2>1 DEF NU!TransfersSettled, NodeUsbRecord, Same, Facets
  <2>3. StepOf(conn[c], s) /\ s.fd = conn[c].fd
    BY <1>0, <1>9, <2>2 DEF NU!TransfersSettled, Same, Facets, StepOf, Sound
  <2> QED BY <1>9, <2>1, <2>2, <2>3 DEF NodeUsbGoes, NU!TransfersSettled, NU!Set
<1>10. ASSUME NU!DeviceClosed(c) PROVE \E s : NodeUsbGoes(c, s)
  <2>1a. PICK released \in BOOLEAN, closed \in BOOLEAN : \E r :
          /\ r = [conn[c] EXCEPT !.fd = IF closed THEN "none" ELSE "open", !.refused = ~closed]
          /\ NU!Set(c, [NU!Finished(r, IF released /\ closed THEN "closed-by-host" ELSE "fault")
                         EXCEPT !.closer = "answered"])
    BY <1>10 DEF NU!DeviceClosed
  <2>1. PICK r :
          /\ r = [conn[c] EXCEPT !.fd = IF closed THEN "none" ELSE "open", !.refused = ~closed]
          /\ NU!Set(c, [NU!Finished(r, IF released /\ closed THEN "closed-by-host" ELSE "fault")
                         EXCEPT !.closer = "answered"])
    BY <2>1a
  <2>2a. PICK e \in Endings : \E s :
          s = [NU!Finished(r, e) EXCEPT !.closer = "answered"] /\ NU!Set(c, s)
    BY <2>1 DEF Endings
  <2>2. PICK s :
          s = [NU!Finished(r, e) EXCEPT !.closer = "answered"] /\ NU!Set(c, s)
    BY <2>2a
  <2>3. conn[c].closer = "releasing" /\ conn[c].place = "live" /\ conn[c].fd = "open"
    BY <1>10 DEF NU!DeviceClosed, NodeUsbRecord
  <2>4. NU!Larger(conn[c].owed, NU!SilenceOf(e)) \in Int
    BY SilenceAssumption DEF NodeUsbRecord, NU!Larger, NU!SilenceOf
  <2>5. /\ NodeUsbRecord(s) /\ Same(conn[c], s, {"ended", "heard", "closer", "fd", "refused"})
        /\ s.closer = "answered" /\ (s.fd = "open" => s.refused)
        /\ IF conn[c].ended = NoEnding THEN s.ended = e /\ s.heard = 0
           ELSE s.ended = conn[c].ended /\ s.heard = conn[c].heard
    <3>1. CASE conn[c].ended = NoEnding
      BY <2>1, <2>2, <2>3, <2>4, <3>1 DEF NU!Finished, NU!Usable, NodeUsbRecord, Same, Facets
    <3>2. CASE conn[c].ended # NoEnding
      BY <2>1, <2>2, <2>3, <3>2 DEF NU!Finished, NU!Usable, NodeUsbRecord, Same, Facets
    <3> QED BY <3>1, <3>2
  <2>6. StepOf(conn[c], s)
    <3>1. s.fd \in {"none", "open"} /\ ~s.reading
      BY <2>5 DEF NodeUsbRecord
    <3> QED BY <1>0, <2>3, <2>5, <3>1, EndingAssumption DEF StepOf, Same, Facets, Sound
  <2> QED BY <2>2, <2>3, <2>5, <2>6 DEF NodeUsbGoes, NU!Set
<1> QED BY <1>1, <1>2, <1>3, <1>4, <1>5, <1>6, <1>7, <1>8, <1>9, <1>10

-----------------------------------------------------------------------------
\* The invariant of one browser USB connection.
BrowserUsbRecord(r) ==
    /\ r \in [place : {"idle", "opening", "claimed", "live", "failed"}, fd : {"none", "open"},
              ended : Endings \cup {NoEnding},
              closer : {"none", "releasing", "settling", "settlingFailed", "answered"},
              hostClosing : BOOLEAN, wake : Int, receipt : Receipts,
              flight : {"none", "sent", "taken"}, reading : {FALSE}, heard : Nat,
              refused : BOOLEAN, owed : Int, input : Int]
    /\ r.closer # "none" => r.place = "live"
    /\ r.ended # NoEnding => r.heard = 0
    /\ r.place \in {"claimed", "live"} /\ r.closer # "answered" => r.fd = "open"
    /\ r.flight # "none" => r.receipt = "pending"

\* One browser USB connection takes a step that its invariant and the contract allow.
BrowserUsbGoes(c, s) ==
    /\ conn' = [conn EXCEPT ![c] = s] /\ BrowserUsbRecord(s) /\ StepOf(conn[c], s)
    /\ conn[c].fd = "none" => s.fd = "none" \/ BU!Unheld(c)

\* It is stronger than Sound.
LEMMA BrowserUsbSound == ASSUME NEW r, BrowserUsbRecord(r) PROVE Sound(r)
BY DEF BrowserUsbRecord, Sound

\* An ending that the host did not ask for.
LEMMA BrowserUsbEnded ==
    ASSUME NEW r, BrowserUsbRecord(r), NEW e \in Endings \ {"closed-by-host"},
           NEW s, s = BU!EndedAndClosed(r, e)
    PROVE  BrowserUsbRecord(s) /\ StepOf(r, s) /\ s.fd = r.fd
<1>1. CASE ~BU!Usable(r)
  <2>1. s = r
    BY <1>1 DEF BU!EndedAndClosed
  <2> QED BY <2>1, Quiet, BrowserUsbSound DEF Same
<1>2. CASE BU!Usable(r)
  <2>1. PICK q : q = BU!Finished(r, e)
    OBVIOUS
  <2>2. /\ BrowserUsbRecord(q) /\ Same(r, q, {"ended", "heard", "reading"}) /\ q.place = "live"
        /\ q.ended = e /\ q.heard = 0 /\ r.ended = NoEnding /\ r.place = "live"
    <3>1. BU!Larger(r.owed, BU!SilenceOf(e)) \in Int
      BY SilenceAssumption DEF BrowserUsbRecord, BU!Larger, BU!SilenceOf
    <3> QED BY <1>2, <2>1, <3>1 DEF BU!Finished, BU!Usable, BrowserUsbRecord, Same, Facets
  <2>3. s = IF q.closer # "none" THEN q ELSE [q EXCEPT !.closer = "releasing"]
    BY <1>2, <2>1 DEF BU!EndedAndClosed, BU!Closed
  <2>4. /\ BrowserUsbRecord(s) /\ Same(q, s, {"closer"}) /\ s.closer # "none"
        /\ s.closer = "answered" <=> q.closer = "answered"
    <3>1. CASE q.closer # "none"
      BY <2>2, <2>3, <3>1 DEF Same
    <3>2. CASE q.closer = "none"
      <4>1. s = [q EXCEPT !.closer = "releasing"]
        BY <2>3, <3>2
      <4> QED BY <2>2, <3>2, <4>1 DEF BrowserUsbRecord, Same, Facets
    <3> QED BY <3>1, <3>2
  <2>5. ~s.reading
    BY <2>4 DEF BrowserUsbRecord
  <2>6. Sound(r)
    BY BrowserUsbSound
  <2> QED BY <2>2, <2>4, <2>5, <2>6, EndingAssumption DEF StepOf, Same, Facets, Sound
<1> QED BY <1>1, <1>2

\* The input transfers, started again or left.
LEMMA BrowserUsbStarted ==
    ASSUME NEW r, BrowserUsbRecord(r), NEW s, s = BU!StartInput(r)
    PROVE  BrowserUsbRecord(s) /\ Same(r, s, {})
<1>1. CASE BU!AcceptingIo(r)
  <2>1. s = [r EXCEPT !.input = Concurrency] /\ Concurrency \in Int
    BY <1>1, BoundsAssumption DEF BU!StartInput
  <2> QED BY <2>1 DEF BrowserUsbRecord, Same, Facets
<1>2. CASE ~BU!AcceptingIo(r)
  BY <1>2 DEF BU!StartInput, Same
<1> QED BY <1>1, <1>2

\* open(), the input transfers and the unplugging of a browser USB connection.
LEMMA BrowserUsbStep1 ==
    ASSUME NEW c \in Conns, c \in DOMAIN conn, BrowserUsbRecord(conn[c])
    PROVE  /\ BU!Open(c) => \E s : BrowserUsbGoes(c, s)
           /\ BU!NativeOpened(c) => \E s : BrowserUsbGoes(c, s)
           /\ BU!Ready(c) => \E s : BrowserUsbGoes(c, s)
           /\ BU!OpenFails(c) => \E s : BrowserUsbGoes(c, s)
           /\ BU!InputSettles(c) => \E s : BrowserUsbGoes(c, s)
           /\ BU!DisconnectEvent(c) => \E s : BrowserUsbGoes(c, s)
<1>0. Sound(conn[c])
  BY BrowserUsbSound
<1>1. ASSUME BU!Open(c) PROVE \E s : BrowserUsbGoes(c, s)
  <2>1. PICK s : s = [conn[c] EXCEPT !.place = "opening"]
    OBVIOUS
  <2>2. BrowserUsbRecord(s) /\ Same(conn[c], s, {"place"}) /\ conn[c].place = "idle"
    BY <1>1, <2>1 DEF BU!Open, BrowserUsbRecord, Receipts, Same, Facets
  <2>3. StepOf(conn[c], s) /\ s.fd = conn[c].fd
    BY <1>0, <2>2, Quiet DEF Same, Facets
  <2> QED BY <1>1, <2>1, <2>2, <2>3 DEF BrowserUsbGoes, BU!Open, BU!Set
<1>2. ASSUME BU!NativeOpened(c) PROVE \E s : BrowserUsbGoes(c, s)
  <2>1. PICK s : \/ BU!Unheld(c) /\ s = [conn[c] EXCEPT !.place = "claimed", !.fd = "open"] /\ BU!Set(c, s)
                 \/ s = [conn[c] EXCEPT !.place = "failed"] /\ BU!Set(c, s)
    BY <1>2 DEF BU!NativeOpened
  <2>2. BrowserUsbRecord(s) /\ Same(conn[c], s, {"place", "fd"}) /\ conn[c].place = "opening"
    BY <1>2, <2>1 DEF BU!NativeOpened, BrowserUsbRecord, Same, Facets
  <2>3. s.fd = conn[c].fd \/ BU!Unheld(c)
    BY <2>1 DEF BrowserUsbRecord
  <2>4. StepOf(conn[c], s)
    BY <1>0, <2>2 DEF Same, Facets, Sound, StepOf
  <2> QED BY <2>1, <2>2, <2>3, <2>4 DEF BrowserUsbGoes, BU!Set
<1>3. ASSUME BU!Ready(c) PROVE \E s : BrowserUsbGoes(c, s)
  <2>1. PICK r, s : r = [conn[c] EXCEPT !.place = "live"] /\ s = BU!StartInput(r) /\ BU!Set(c, s)
    BY <1>3 DEF BU!Ready
  <2>2. BrowserUsbRecord(r) /\ Same(conn[c], r, {"place"}) /\ r.place = "live"
    BY <1>3, <2>1 DEF BU!Ready, BrowserUsbRecord, Same, Facets
  <2>3. BrowserUsbRecord(s) /\ Same(r, s, {})
    BY <2>1, <2>2, BrowserUsbStarted
  <2>4. StepOf(conn[c], s) /\ s.fd = conn[c].fd
    BY <1>0, <2>2, <2>3, Quiet DEF Same, Facets
  <2> QED BY <2>1, <2>3, <2>4 DEF BrowserUsbGoes, BU!Set
<1>4. ASSUME BU!OpenFails(c) PROVE \E s : BrowserUsbGoes(c, s)
  <2>1a. PICK fd \in {"none", "open"} : \E s :
          /\ s = [conn[c] EXCEPT !.place = "failed", !.fd = fd, !.refused = (fd = "open")]
          /\ BU!Set(c, s)
    BY <1>4 DEF BU!OpenFails
  <2>1. PICK s :
          /\ s = [conn[c] EXCEPT !.place = "failed", !.fd = fd, !.refused = (fd = "open")]
          /\ BU!Set(c, s)
    BY <2>1a
  <2>2. BrowserUsbRecord(s) /\ Same(conn[c], s, {"place", "fd", "refused"}) /\ conn[c].place = "claimed"
    BY <1>4, <2>1 DEF BU!OpenFails, BrowserUsbRecord, Same, Facets
  <2>3. StepOf(conn[c], s) /\ conn[c].fd = "open"
    BY <1>0, <2>2 DEF Same, Facets, Sound, StepOf, BrowserUsbRecord
  <2> QED BY <2>1, <2>2, <2>3 DEF BrowserUsbGoes, BU!Set
<1>5. ASSUME BU!InputSettles(c) PROVE \E s : BrowserUsbGoes(c, s)
  <2>1. PICK r, q : r = [conn[c] EXCEPT !.input = @ - 1] /\ q = BU!StartInput(r)
    OBVIOUS
  <2>2. BrowserUsbRecord(r) /\ Same(conn[c], r, {})
    <3>1. conn[c].input - 1 \in Int
      BY DEF BrowserUsbRecord
    <3> QED BY <2>1, <3>1 DEF BrowserUsbRecord, Same, Facets
  <2>3. BrowserUsbRecord(q) /\ Same(conn[c], q, {})
    BY <2>1, <2>2, BrowserUsbStarted DEF Same
  <2>4. PICK s : /\ BU!Set(c, s)
                 /\ \/ s \in {r, q}
                    \/ s = BU!EndedAndClosed(r, "fault")
                    \/ s = BU!EndedAndClosed(q, "receive-overflow")
                    \/ r.ended = NoEnding /\ s = [q EXCEPT !.heard = @ + 1]
    BY <1>5, <2>1 DEF BU!InputSettles, BU!AcceptingIo, BU!Usable
  <2>5. CASE s \in {r, q}
    <3>1. StepOf(conn[c], s) /\ s.fd = conn[c].fd /\ BrowserUsbRecord(s)
      BY <1>0, <2>2, <2>3, <2>5, Quiet DEF Same, Facets
    <3> QED BY <2>4, <3>1 DEF BrowserUsbGoes, BU!Set
  <2>6. CASE s = BU!EndedAndClosed(r, "fault") \/ s = BU!EndedAndClosed(q, "receive-overflow")
    <3>1. BrowserUsbRecord(s) /\ ((StepOf(r, s) /\ s.fd = r.fd) \/ (StepOf(q, s) /\ s.fd = q.fd))
      BY <2>2, <2>3, <2>6, BrowserUsbEnded DEF Endings
    <3>2. StepOf(conn[c], s) /\ s.fd = conn[c].fd
      BY <2>2, <2>3, <3>1, StepFrom DEF Same, Facets
    <3> QED BY <2>4, <3>1, <3>2 DEF BrowserUsbGoes, BU!Set
  <2>7. CASE r.ended = NoEnding /\ s = [q EXCEPT !.heard = @ + 1]
    <3>1. q.heard + 1 \in Nat /\ q.ended = NoEnding
      BY <2>2, <2>3, <2>7 DEF BrowserUsbRecord, Same, Facets
    <3>2. BrowserUsbRecord(s) /\ Same(q, s, {"heard"})
      BY <2>3, <2>7, <3>1 DEF BrowserUsbRecord, Same, Facets
    <3>3. StepOf(conn[c], s) /\ s.fd = conn[c].fd
      BY <1>0, <2>3, <3>1, <3>2 DEF StepOf, Same, Facets, Sound
    <3> QED BY <2>4, <3>2, <3>3 DEF BrowserUsbGoes, BU!Set
  <2> QED BY <2>4, <2>5, <2>6, <2>7
<1>6. ASSUME BU!DisconnectEvent(c) PROVE \E s : BrowserUsbGoes(c, s)
  <2>1. PICK s : s = BU!EndedAndClosed(conn[c], "device-lost")
    OBVIOUS
  <2>2. BrowserUsbRecord(s) /\ StepOf(conn[c], s) /\ s.fd = conn[c].fd
    BY <2>1, BrowserUsbEnded DEF Endings
  <2> QED BY <1>6, <2>1, <2>2 DEF BrowserUsbGoes, BU!DisconnectEvent, BU!Set
<1> QED BY <1>1, <1>2, <1>3, <1>4, <1>5, <1>6

\* Its reads, its writes, its endings and its close().
LEMMA BrowserUsbStep2 ==
    ASSUME NEW c \in Conns, c \in DOMAIN conn, BrowserUsbRecord(conn[c])
    PROVE  /\ BU!Read(c) => \E s : BrowserUsbGoes(c, s)
           /\ BU!Collect(c) => \E s : BrowserUsbGoes(c, s)
           /\ BU!PlatformTakes(c) => \E s : BrowserUsbGoes(c, s)
           /\ BU!Write(c) => \E s : BrowserUsbGoes(c, s)
           /\ BU!WriteRefused(c) => \E s : BrowserUsbGoes(c, s)
           /\ BU!OutputSettles(c) => \E s : BrowserUsbGoes(c, s)
           /\ BU!Close(c) => \E s : BrowserUsbGoes(c, s)
           /\ BU!Invalidate(c, "fault") => \E s : BrowserUsbGoes(c, s)
           /\ BU!Released(c) => \E s : BrowserUsbGoes(c, s)
           /\ BU!DeviceClosed(c) => \E s : BrowserUsbGoes(c, s)
<1>0. Sound(conn[c])
  BY BrowserUsbSound
<1>1. ASSUME BU!Read(c) PROVE \E s : BrowserUsbGoes(c, s)
  <2>1. PICK s : s = [conn[c] EXCEPT !.heard = @ - 1]
    OBVIOUS
  <2>2. conn[c].heard - 1 \in Nat /\ conn[c].ended = NoEnding
    BY <1>1 DEF BU!Read, BrowserUsbRecord
  <2>3. BrowserUsbRecord(s) /\ Same(conn[c], s, {"heard"}) /\ s.heard = conn[c].heard - 1
    BY <1>1, <2>1, <2>2 DEF BU!Read, BrowserUsbRecord, Receipts, Same, Facets
  <2>4. StepOf(conn[c], s) /\ s.fd = conn[c].fd
    BY <1>0, <1>1, <2>2, <2>3 DEF BU!Read, Same, Facets, StepOf, Sound
  <2> QED BY <1>1, <2>1, <2>3, <2>4 DEF BrowserUsbGoes, BU!Read, BU!Set
<1>2. ASSUME BU!Collect(c) PROVE \E s : BrowserUsbGoes(c, s)
  <2>1. PICK s : s = [conn[c] EXCEPT !.receipt = "none"]
    OBVIOUS
  <2>2. BrowserUsbRecord(s) /\ Same(conn[c], s, {"receipt"}) /\ s.receipt = "none"
    BY <1>2, <2>1 DEF BU!Collect, BrowserUsbRecord, Receipts, Same, Facets
  <2>3. StepOf(conn[c], s) /\ s.fd = conn[c].fd
    BY <1>0, <1>2, <2>2 DEF BU!Collect, Same, Facets, StepOf, Sound
  <2> QED BY <1>2, <2>1, <2>2, <2>3 DEF BrowserUsbGoes, BU!Collect, BU!Set
<1>3. ASSUME BU!PlatformTakes(c) PROVE \E s : BrowserUsbGoes(c, s)
  <2>1. PICK s : s = [conn[c] EXCEPT !.flight = "taken"]
    OBVIOUS
  <2>2. BrowserUsbRecord(s) /\ Same(conn[c], s, {"flight"})
    BY <1>3, <2>1 DEF BU!PlatformTakes, BrowserUsbRecord, Receipts, Same, Facets
  <2>3. StepOf(conn[c], s) /\ s.fd = conn[c].fd
    BY <1>0, <2>2, Quiet DEF Same, Facets
  <2> QED BY <1>3, <2>1, <2>2, <2>3 DEF BrowserUsbGoes, BU!PlatformTakes, BU!Set
<1>4. ASSUME BU!Write(c) PROVE \E s : BrowserUsbGoes(c, s)
  <2>1. PICK s : s = [conn[c] EXCEPT !.receipt = "pending", !.flight = "sent"]
    OBVIOUS
  <2>2. ~conn[c].reading /\ conn[c].ended = NoEnding /\ conn[c].place = "live"
    BY <1>4 DEF BU!Write, BrowserUsbRecord, BU!AcceptingIo, BU!Usable
  <2>3. BrowserUsbRecord(s) /\ Same(conn[c], s, {"receipt", "flight"}) /\ s.receipt = "pending"
    BY <1>4, <2>1, <2>2 DEF BU!Write, BrowserUsbRecord, Receipts, Same, Facets,
       BU!AcceptingIo, BU!Usable
  <2>4. StepOf(conn[c], s) /\ s.fd = conn[c].fd
    BY <1>0, <1>4, <2>2, <2>3 DEF BU!Write, Same, Facets, StepOf, Sound, BU!AcceptingIo, BU!Usable
  <2> QED BY <1>4, <2>1, <2>3, <2>4 DEF BrowserUsbGoes, BU!Write, BU!Set
<1>5. ASSUME BU!WriteRefused(c) PROVE \E s : BrowserUsbGoes(c, s)
  <2>1. PICK s : s = [conn[c] EXCEPT !.receipt = "rejected"]
    OBVIOUS
  <2>2. ~conn[c].reading /\ conn[c].ended = NoEnding /\ conn[c].place = "live"
    BY <1>5 DEF BU!WriteRefused, BrowserUsbRecord, BU!AcceptingIo, BU!Usable
  <2>3. BrowserUsbRecord(s) /\ Same(conn[c], s, {"receipt"}) /\ s.receipt = "rejected"
    BY <1>5, <2>1, <2>2 DEF BU!WriteRefused, BrowserUsbRecord, Receipts, Same, Facets,
       BU!AcceptingIo, BU!Usable
  <2>4. StepOf(conn[c], s) /\ s.fd = conn[c].fd
    BY <1>0, <1>5, <2>2, <2>3 DEF BU!WriteRefused, Same, Facets, StepOf, Sound,
       BU!AcceptingIo, BU!Usable
  <2> QED BY <1>5, <2>1, <2>3, <2>4 DEF BrowserUsbGoes, BU!WriteRefused, BU!Set
<1>6. ASSUME BU!OutputSettles(c) PROVE \E s : BrowserUsbGoes(c, s)
  <2>1a. PICK outcome \in {"accepted-by-platform", "may-be-partial"} : \E s :
          /\ s = [conn[c] EXCEPT !.flight = "none", !.receipt = outcome] /\ BU!Set(c, s)
          /\ outcome = "accepted-by-platform" => conn[c].flight = "taken"
    BY <1>6 DEF BU!OutputSettles
  <2>1. PICK s :
          /\ s = [conn[c] EXCEPT !.flight = "none", !.receipt = outcome] /\ BU!Set(c, s)
          /\ outcome = "accepted-by-platform" => conn[c].flight = "taken"
    BY <2>1a
  <2>2. conn[c].receipt = "pending"
    BY <1>6 DEF BU!OutputSettles, BrowserUsbRecord
  <2>3. BrowserUsbRecord(s) /\ Same(conn[c], s, {"receipt", "flight"}) /\ s.receipt = outcome
    BY <2>1, <2>2 DEF BrowserUsbRecord, Receipts, Same, Facets
  <2>4. StepOf(conn[c], s) /\ s.fd = conn[c].fd
    BY <1>0, <2>1, <2>2, <2>3 DEF Same, Facets, StepOf, Sound
  <2> QED BY <2>1, <2>3, <2>4 DEF BrowserUsbGoes, BU!Set
<1>7. ASSUME BU!Close(c) PROVE \E s : BrowserUsbGoes(c, s)
  <2>1. PICK s : s = [conn[c] EXCEPT !.closer = "releasing"]
    OBVIOUS
  <2>2. BrowserUsbRecord(s) /\ Same(conn[c], s, {"closer"}) /\ s.closer = "releasing" /\ conn[c].closer = "none"
    BY <1>7, <2>1 DEF BU!Close, BrowserUsbRecord, Receipts, Same, Facets
  <2>3. StepOf(conn[c], s) /\ s.fd = conn[c].fd
    BY <1>0, <1>7, <2>2 DEF BU!Close, Same, Facets, StepOf, Sound
  <2> QED BY <1>7, <2>1, <2>2, <2>3 DEF BrowserUsbGoes, BU!Close, BU!Closed, BU!Set
<1>8. ASSUME BU!Invalidate(c, "fault") PROVE \E s : BrowserUsbGoes(c, s)
  <2>1. PICK s : s = BU!EndedAndClosed(conn[c], "fault")
    OBVIOUS
  <2>2. BrowserUsbRecord(s) /\ StepOf(conn[c], s) /\ s.fd = conn[c].fd
    BY <2>1, BrowserUsbEnded DEF Endings
  <2> QED BY <1>8, <2>1, <2>2 DEF BrowserUsbGoes, BU!Invalidate, BU!Set
<1>9. ASSUME BU!Released(c) PROVE \E s : BrowserUsbGoes(c, s)
  <2>1a. PICK closer \in {"settling", "settlingFailed"} : \E s :
          s = [conn[c] EXCEPT !.closer = closer] /\ BU!Set(c, s)
    BY <1>9 DEF BU!Released
  <2>1. PICK s :
          s = [conn[c] EXCEPT !.closer = closer] /\ BU!Set(c, s)
    BY <2>1a
  <2>2. BrowserUsbRecord(s) /\ Same(conn[c], s, {"closer"}) /\ s.closer = closer
    BY <1>9, <2>1 DEF BU!Released, BrowserUsbRecord, Same, Facets
  <2>3. StepOf(conn[c], s) /\ s.fd = conn[c].fd
    BY <1>0, <1>9, <2>2 DEF BU!Released, Same, Facets, StepOf, Sound
  <2> QED BY <2>1, <2>2, <2>3 DEF BrowserUsbGoes, BU!Set
<1>10. ASSUME BU!DeviceClosed(c) PROVE \E s : BrowserUsbGoes(c, s)
  <2>1a. PICK closed \in BOOLEAN, e \in Endings : \E r, s :
          /\ r = [conn[c] EXCEPT !.fd = IF closed THEN "none" ELSE "open", !.refused = ~closed]
          /\ s = [BU!Finished(r, e) EXCEPT !.closer = "answered"] /\ BU!Set(c, s)
    <3>1. "closed-by-host" \in Endings /\ "fault" \in Endings
      BY DEF Endings
    <3> QED BY <1>10, <3>1 DEF BU!DeviceClosed
  <2>1. PICK r, s :
          /\ r = [conn[c] EXCEPT !.fd = IF closed THEN "none" ELSE "open", !.refused = ~closed]
          /\ s = [BU!Finished(r, e) EXCEPT !.closer = "answered"] /\ BU!Set(c, s)
    BY <2>1a
  <2>2. conn[c].closer \in {"settling", "settlingFailed"} /\ conn[c].place = "live" /\ conn[c].fd = "open"
    BY <1>10 DEF BU!DeviceClosed, BrowserUsbRecord
  <2>3. BU!Larger(conn[c].owed, BU!SilenceOf(e)) \in Int
    BY SilenceAssumption DEF BrowserUsbRecord, BU!Larger, BU!SilenceOf
  <2>4. /\ BrowserUsbRecord(s) /\ Same(conn[c], s, {"ended", "heard", "closer", "fd", "refused"})
        /\ s.closer = "answered" /\ (s.fd = "open" => s.refused)
        /\ IF conn[c].ended = NoEnding THEN s.ended = e /\ s.heard = 0
           ELSE s.ended = conn[c].ended /\ s.heard = conn[c].heard
    <3>1. CASE conn[c].ended = NoEnding
      BY <2>1, <2>2, <2>3, <3>1 DEF BU!Finished, BU!Usable, BrowserUsbRecord, Same, Facets
    <3>2. CASE conn[c].ended # NoEnding
      BY <2>1, <2>2, <3>2 DEF BU!Finished, BU!Usable, BrowserUsbRecord, Same, Facets
    <3> QED BY <3>1, <3>2
  <2>5. StepOf(conn[c], s)
    <3>1. s.fd \in {"none", "open"} /\ ~s.reading
      BY <2>4 DEF BrowserUsbRecord
    <3> QED BY <1>0, <2>2, <2>4, <3>1, EndingAssumption DEF StepOf, Same, Facets, Sound
  <2> QED BY <2>1, <2>2, <2>4, <2>5 DEF BrowserUsbGoes, BU!Set
<1> QED BY <1>1, <1>2, <1>3, <1>4, <1>5, <1>6, <1>7, <1>8, <1>9, <1>10

-----------------------------------------------------------------------------
\* The invariant of one browser serial connection.
BrowserSerialRecord(r) ==
    /\ r \in [place : {"idle", "locking", "opening", "draining", "abandoning", "resting", "live", "failed"},
              fd : {"none", "open", "closing"}, ended : Endings \cup {NoEnding},
              closer : {"none", "releasing", "resting", "answered"},
              hostClosing : BOOLEAN, wake : Int, receipt : Receipts,
              flight : {"none", "sent", "taken"}, reading : BOOLEAN, heard : Nat,
              refused : BOOLEAN, owed : Int, pump : BOOLEAN,
              release : {"none", "waiting", "cancelling", "closing", "done", "failed"}]
    /\ r.closer # "none" => r.place = "live"
    /\ r.ended # NoEnding => r.heard = 0 /\ ~r.reading
    /\ r.flight # "none" => r.receipt = "pending"
    /\ r.place \in {"draining", "abandoning"} => r.fd # "none"
    /\ r.release # "none" => r.place = "live" /\ (r.closer # "none" \/ r.ended # NoEnding)
    /\ r.release = "closing" => r.fd = "closing"
    /\ r.release = "done" => r.fd = "none"
    /\ r.release = "failed" => r.refused
    /\ r.closer \in {"resting", "answered"} => r.release \in {"done", "failed"} /\ r.ended # NoEnding

\* One browser serial connection takes a step that its invariant and the contract allow.
BrowserSerialGoes(c, s) ==
    /\ conn' = [conn EXCEPT ![c] = s] /\ BrowserSerialRecord(s) /\ StepOf(conn[c], s)
    /\ conn[c].fd = "none" => s.fd = "none" \/ BS!Unheld(c)

\* It is stronger than Sound.
LEMMA BrowserSerialSound == ASSUME NEW r, BrowserSerialRecord(r) PROVE Sound(r)
BY DEF BrowserSerialRecord, Sound

\* An ending: the first one stays, and the input is discarded with it.
LEMMA BrowserSerialFinished ==
    ASSUME NEW r, BrowserSerialRecord(r), NEW e \in Endings, NEW s, s = BS!Finish(r, e)
    PROVE  /\ BrowserSerialRecord(s) /\ Same(r, s, {"ended", "heard", "reading"})
           /\ s.release = r.release /\ s.hostClosing = r.hostClosing
           /\ IF BS!Usable(r) THEN s.ended = e /\ s.heard = 0 /\ ~s.reading ELSE s = r
<1>1. CASE BS!Usable(r)
  <2>1. BS!Larger(r.owed, BS!SilenceOf(e)) \in Int /\ BS!SilenceOf(e) \in Int
    BY SilenceAssumption DEF BrowserSerialRecord, BS!Larger, BS!SilenceOf
  <2>2. PICK q : q = BS!Finished(r, e)
    OBVIOUS
  <2>3. /\ BrowserSerialRecord(q) /\ Same(r, q, {"ended", "heard", "reading"})
        /\ q.release = r.release /\ q.hostClosing = r.hostClosing
        /\ q.ended = e /\ q.heard = 0 /\ ~q.reading
    BY <1>1, <2>1, <2>2, EndingAssumption DEF BS!Finished, BS!Usable, BrowserSerialRecord,
       Same, Facets
  <2>4. s = [q EXCEPT !.wake = BS!SilenceOf(e)]
    BY <1>1, <2>2 DEF BS!Finish
  <2>5. /\ BrowserSerialRecord(s) /\ Same(q, s, {})
        /\ s.release = q.release /\ s.hostClosing = q.hostClosing
    BY <2>1, <2>3, <2>4 DEF BrowserSerialRecord, Same, Facets
  <2> QED BY <1>1, <2>3, <2>5 DEF Same, Facets
<1>2. CASE ~BS!Usable(r)
  BY <1>2 DEF BS!Finish, Same
<1> QED BY <1>1, <1>2

\* Giving the port back, at once or after the recovery.
LEMMA BrowserSerialReleased ==
    ASSUME NEW r, BrowserSerialRecord(r), r.place = "live", r.closer # "none" \/ r.ended # NoEnding,
           NEW s, s = BS!Release(r) \/ s = BS!ReleaseAfterRecovery(r)
    PROVE  BrowserSerialRecord(s) /\ Same(r, s, {})
<1>1. CASE r.release # "none"
  BY <1>1 DEF BS!Release, BS!ReleaseAfterRecovery, Same
<1>2. CASE r.release = "none"
  <2>1. PICK release \in {"waiting", "cancelling"} : s = [r EXCEPT !.release = release]
    BY <1>2 DEF BS!Release, BS!ReleaseAfterRecovery
  <2> QED BY <1>2, <2>1 DEF BrowserSerialRecord, Same, Facets
<1> QED BY <1>1, <1>2

\* An ending that the host did not ask for, with what is given back for it.
LEMMA BrowserSerialEnded ==
    ASSUME NEW r, BrowserSerialRecord(r), NEW e \in Endings \ {"closed-by-host"}, NEW q, q = BS!Finish(r, e),
           NEW s, \/ s = q
                  \/ BS!Usable(r) /\ (s = BS!Release(q) \/ s = BS!ReleaseAfterRecovery(q))
    PROVE  BrowserSerialRecord(s) /\ StepOf(r, s) /\ s.fd = r.fd
<1>1. /\ BrowserSerialRecord(q) /\ Same(r, q, {"ended", "heard", "reading"})
      /\ IF BS!Usable(r) THEN q.ended = e /\ q.heard = 0 /\ ~q.reading ELSE q = r
  BY BrowserSerialFinished
<1>2. BrowserSerialRecord(s) /\ Same(q, s, {})
  <2>1. CASE s = q
    BY <1>1, <2>1 DEF Same
  <2>2. CASE s # q
    <3>1. q.place = "live" /\ q.ended # NoEnding
      BY <1>1, <2>2, EndingAssumption DEF BS!Usable, Same, Facets
    <3> QED BY <1>1, <2>2, <3>1, BrowserSerialReleased
  <2> QED BY <2>1, <2>2
<1>3. Sound(r)
  BY BrowserSerialSound
<1> QED BY <1>1, <1>2, <1>3, EndingAssumption DEF BS!Usable, StepOf, Same, Facets, Sound

\* open() and the giving back of a browser serial port.
LEMMA BrowserSerialStep1 ==
    ASSUME NEW c \in Conns, c \in DOMAIN conn, BrowserSerialRecord(conn[c])
    PROVE  /\ BS!Open(c) => \E s : BrowserSerialGoes(c, s)
           /\ BS!Locked(c) => \E s : BrowserSerialGoes(c, s)
           /\ BS!NativeOpened(c) => \E s : BrowserSerialGoes(c, s)
           /\ BS!Drained(c) => \E s : BrowserSerialGoes(c, s)
           /\ BS!DrainFails(c) => \E s : BrowserSerialGoes(c, s)
           /\ BS!Abandoned(c) => \E s : BrowserSerialGoes(c, s)
           /\ BS!Rested(c) => \E s : BrowserSerialGoes(c, s)
           /\ BS!RecoveryElapsed(c) => \E s : BrowserSerialGoes(c, s)
           /\ BS!Cancelled(c) => \E s : BrowserSerialGoes(c, s)
           /\ BS!PortClosed(c) => \E s : BrowserSerialGoes(c, s)
<1>0. Sound(conn[c])
  BY BrowserSerialSound
<1>1. ASSUME BS!Open(c) PROVE \E s : BrowserSerialGoes(c, s)
  <2>1a. PICK place \in {"locking", "failed"} : \E s :
          s = [conn[c] EXCEPT !.place = place] /\ BS!Set(c, s)
    BY <1>1 DEF BS!Open
  <2>1. PICK s :
          s = [conn[c] EXCEPT !.place = place] /\ BS!Set(c, s)
    BY <2>1a
  <2>2. BrowserSerialRecord(s) /\ Same(conn[c], s, {"place"}) /\ conn[c].place = "idle"
    BY <1>1, <2>1 DEF BS!Open, BrowserSerialRecord, Same, Facets
  <2>3. StepOf(conn[c], s) /\ s.fd = conn[c].fd
    BY <1>0, <2>2, Quiet DEF Same, Facets
  <2> QED BY <2>1, <2>2, <2>3 DEF BrowserSerialGoes, BS!Set
<1>2. ASSUME BS!Locked(c) PROVE \E s : BrowserSerialGoes(c, s)
  <2>1a. PICK place \in {"opening", "failed"} : \E s :
          s = [conn[c] EXCEPT !.place = place] /\ BS!Set(c, s)
    BY <1>2 DEF BS!Locked
  <2>1. PICK s :
          s = [conn[c] EXCEPT !.place = place] /\ BS!Set(c, s)
    BY <2>1a
  <2>2. BrowserSerialRecord(s) /\ Same(conn[c], s, {"place"}) /\ conn[c].place = "locking"
    BY <1>2, <2>1 DEF BS!Locked, BrowserSerialRecord, Same, Facets
  <2>3. StepOf(conn[c], s) /\ s.fd = conn[c].fd
    BY <1>0, <2>2, Quiet DEF Same, Facets
  <2> QED BY <2>1, <2>2, <2>3 DEF BrowserSerialGoes, BS!Set
<1>3. ASSUME BS!NativeOpened(c) PROVE \E s : BrowserSerialGoes(c, s)
  <2>1. PICK s : \/ BS!Unheld(c) /\ s = [conn[c] EXCEPT !.place = "draining", !.fd = "open"] /\ BS!Set(c, s)
                 \/ s = [conn[c] EXCEPT !.place = "failed"] /\ BS!Set(c, s)
    BY <1>3 DEF BS!NativeOpened
  <2>2. BrowserSerialRecord(s) /\ Same(conn[c], s, {"place", "fd"}) /\ conn[c].place = "opening"
    <3>1. conn[c].place = "opening"
      BY <1>3 DEF BS!NativeOpened
    <3>2. CASE s = [conn[c] EXCEPT !.place = "draining", !.fd = "open"]
      BY <3>1, <3>2 DEF BrowserSerialRecord, Same, Facets
    <3>3. CASE s = [conn[c] EXCEPT !.place = "failed"]
      BY <3>1, <3>3 DEF BrowserSerialRecord, Same, Facets
    <3> QED BY <2>1, <3>1, <3>2, <3>3
  <2>3. s.fd = conn[c].fd \/ BS!Unheld(c)
    BY <2>1 DEF BrowserSerialRecord
  <2>4. StepOf(conn[c], s)
    BY <1>0, <2>2 DEF Same, Facets, Sound, StepOf
  <2> QED BY <2>1, <2>2, <2>3, <2>4 DEF BrowserSerialGoes, BS!Set
<1>4. ASSUME BS!Drained(c) PROVE \E s : BrowserSerialGoes(c, s)
  <2>1. PICK s : s = [conn[c] EXCEPT !.place = "live", !.pump = TRUE]
    OBVIOUS
  <2>2. BrowserSerialRecord(s) /\ Same(conn[c], s, {"place"}) /\ s.place = "live"
    BY <1>4, <2>1 DEF BS!Drained, BrowserSerialRecord, Receipts, Same, Facets
  <2>3. StepOf(conn[c], s) /\ s.fd = conn[c].fd
    BY <1>0, <2>2, Quiet DEF Same, Facets
  <2> QED BY <1>4, <2>1, <2>2, <2>3 DEF BrowserSerialGoes, BS!Drained, BS!Set
<1>5. ASSUME BS!DrainFails(c) PROVE \E s : BrowserSerialGoes(c, s)
  <2>1. PICK s : s = [conn[c] EXCEPT !.place = "abandoning", !.fd = "closing"]
    OBVIOUS
  <2>2. /\ BrowserSerialRecord(s) /\ Same(conn[c], s, {"place", "fd"}) /\ s.fd # "none"
        /\ conn[c].place = "draining" /\ conn[c].fd # "none"
    BY <1>5, <2>1 DEF BS!DrainFails, BrowserSerialRecord, Same, Facets
  <2>3. StepOf(conn[c], s)
    BY <1>0, <2>2 DEF Same, Facets, Sound, StepOf
  <2> QED BY <1>5, <2>1, <2>2, <2>3 DEF BrowserSerialGoes, BS!DrainFails, BS!Set
<1>6. ASSUME BS!Abandoned(c) PROVE \E s : BrowserSerialGoes(c, s)
  <2>1a. PICK fd \in {"none", "open"} : \E s :
          /\ s = [conn[c] EXCEPT !.fd = fd, !.refused = (fd = "open"), !.owed = Abnormal,
                                 !.place = "resting", !.wake = Abnormal]
          /\ BS!Set(c, s)
    BY <1>6 DEF BS!Abandoned
  <2>1. PICK s :
          /\ s = [conn[c] EXCEPT !.fd = fd, !.refused = (fd = "open"), !.owed = Abnormal,
                                 !.place = "resting", !.wake = Abnormal]
          /\ BS!Set(c, s)
    BY <2>1a
  <2>2. /\ BrowserSerialRecord(s) /\ Same(conn[c], s, {"place", "fd", "refused"})
        /\ conn[c].place = "abandoning" /\ conn[c].fd # "none"
    <3>1. Abnormal \in Int
      BY SilenceAssumption
    <3> QED BY <1>6, <2>1, <3>1 DEF BS!Abandoned, BrowserSerialRecord, Same, Facets
  <2>3. StepOf(conn[c], s)
    BY <1>0, <2>2 DEF Same, Facets, Sound, StepOf
  <2> QED BY <2>1, <2>2, <2>3 DEF BrowserSerialGoes, BS!Set
<1>7. ASSUME BS!Rested(c) PROVE \E s : BrowserSerialGoes(c, s)
  <2>1. PICK s : s = [conn[c] EXCEPT !.place = "failed"]
    OBVIOUS
  <2>2. BrowserSerialRecord(s) /\ Same(conn[c], s, {"place"}) /\ conn[c].place = "resting"
    BY <1>7, <2>1 DEF BS!Rested, BrowserSerialRecord, Receipts, Same, Facets
  <2>3. StepOf(conn[c], s) /\ s.fd = conn[c].fd
    BY <1>0, <2>2, Quiet DEF Same, Facets
  <2> QED BY <1>7, <2>1, <2>2, <2>3 DEF BrowserSerialGoes, BS!Rested, BS!Set
<1>8. ASSUME BS!RecoveryElapsed(c) PROVE \E s : BrowserSerialGoes(c, s)
  <2>1. PICK s : s = [conn[c] EXCEPT !.release = "cancelling"]
    OBVIOUS
  <2>2. BrowserSerialRecord(s) /\ Same(conn[c], s, {})
    BY <1>8, <2>1 DEF BS!RecoveryElapsed, BrowserSerialRecord, Receipts, Same, Facets
  <2>3. StepOf(conn[c], s) /\ s.fd = conn[c].fd
    BY <1>0, <2>2, Quiet DEF Same, Facets
  <2> QED BY <1>8, <2>1, <2>2, <2>3 DEF BrowserSerialGoes, BS!RecoveryElapsed, BS!Set
<1>9. ASSUME BS!Cancelled(c) PROVE \E s : BrowserSerialGoes(c, s)
  <2>1. PICK s : /\ BS!Set(c, s)
                 /\ \/ conn[c].fd = "none" /\ s = [conn[c] EXCEPT !.pump = FALSE, !.release = "done"]
                    \/ conn[c].fd # "none" /\ s = [conn[c] EXCEPT !.pump = FALSE, !.release = "closing", !.fd = "closing"]
    BY <1>9 DEF BS!Cancelled
  <2>2. BrowserSerialRecord(s) /\ Same(conn[c], s, {"fd"}) /\ (s.fd = "none" <=> conn[c].fd = "none")
    BY <1>9, <2>1 DEF BS!Cancelled, BrowserSerialRecord, Same, Facets
  <2>3. StepOf(conn[c], s)
    BY <1>0, <2>2 DEF Same, Facets, Sound, StepOf
  <2> QED BY <2>1, <2>2, <2>3 DEF BrowserSerialGoes, BS!Set
<1>10. ASSUME BS!PortClosed(c) PROVE \E s : BrowserSerialGoes(c, s)
  <2>1a. PICK done \in BOOLEAN : \E s :
          /\ s = [conn[c] EXCEPT !.release = IF done THEN "done" ELSE "failed",
                                 !.refused = ~done, !.fd = IF done THEN "none" ELSE "open"]
          /\ BS!Set(c, s)
    BY <1>10 DEF BS!PortClosed
  <2>1. PICK s :
          /\ s = [conn[c] EXCEPT !.release = IF done THEN "done" ELSE "failed",
                                 !.refused = ~done, !.fd = IF done THEN "none" ELSE "open"]
          /\ BS!Set(c, s)
    BY <2>1a
  <2>2. /\ BrowserSerialRecord(s) /\ Same(conn[c], s, {"fd", "refused"})
        /\ conn[c].fd = "closing" /\ (conn[c].closer # "none" \/ conn[c].ended # NoEnding)
    BY <1>10, <2>1 DEF BS!PortClosed, BrowserSerialRecord, Same, Facets
  <2>3. StepOf(conn[c], s)
    BY <1>0, <2>2 DEF Same, Facets, Sound, StepOf
  <2> QED BY <2>1, <2>2, <2>3 DEF BrowserSerialGoes, BS!Set
<1> QED BY <1>1, <1>2, <1>3, <1>4, <1>5, <1>6, <1>7, <1>8, <1>9, <1>10

\* Its endings and its writes.
LEMMA BrowserSerialStep2 ==
    ASSUME NEW c \in Conns, c \in DOMAIN conn, BrowserSerialRecord(conn[c])
    PROVE  /\ BS!DisconnectEvent(c) => \E s : BrowserSerialGoes(c, s)
           /\ BS!StreamEnds(c) => \E s : BrowserSerialGoes(c, s)
           /\ BS!StreamFails(c) => \E s : BrowserSerialGoes(c, s)
           /\ BS!Write(c) => \E s : BrowserSerialGoes(c, s)
           /\ BS!WriteSettles(c) => \E s : BrowserSerialGoes(c, s)
           /\ BS!Receive(c) => \E s : BrowserSerialGoes(c, s)
           /\ BS!Invalidate(c, "fault") => \E s : BrowserSerialGoes(c, s)
<1>0. Sound(conn[c])
  BY BrowserSerialSound
<1>1. ASSUME BS!DisconnectEvent(c) PROVE \E s : BrowserSerialGoes(c, s)
  <2>1a. PICK fd \in {conn[c].fd, "none"} : \E r, s :
          /\ r = [conn[c] EXCEPT !.fd = fd] /\ s = BS!Finish(r, "device-lost") /\ BS!Set(c, s)
          /\ fd = "none" => conn[c].fd \in {"none", "open"}
    BY <1>1 DEF BS!DisconnectEvent
  <2>1. PICK r, s :
          /\ r = [conn[c] EXCEPT !.fd = fd] /\ s = BS!Finish(r, "device-lost") /\ BS!Set(c, s)
          /\ fd = "none" => conn[c].fd \in {"none", "open"}
    BY <2>1a
  <2>2. /\ BrowserSerialRecord(r) /\ Same(conn[c], r, {"fd"}) /\ BS!Usable(r)
        /\ conn[c].place = "live" /\ conn[c].ended = NoEnding
    BY <1>1, <2>1 DEF BS!DisconnectEvent, BS!Usable, BrowserSerialRecord, Same, Facets
  <2>3. /\ BrowserSerialRecord(s) /\ Same(r, s, {"ended", "heard", "reading"})
        /\ s.ended = "device-lost" /\ s.heard = 0 /\ ~s.reading
    BY <2>1, <2>2, BrowserSerialFinished DEF Endings
  <2>4. s.fd = r.fd /\ r.fd = fd
    BY <2>1, <2>3 DEF Same, Facets, BrowserSerialRecord
  <2>5. StepOf(conn[c], s)
    <3>1. s.fd = conn[c].fd \/ s.fd = "none"
      BY <2>1, <2>4
    <3>2. s.ended \in Endings /\ s.ended # NoEnding
      BY <2>3, EndingAssumption DEF Endings
    <3> QED BY <1>0, <2>2, <2>3, <3>1, <3>2 DEF Same, Facets, Sound, StepOf
  <2> QED BY <2>1, <2>3, <2>4, <2>5 DEF BrowserSerialGoes, BS!Set
<1>2. ASSUME BS!StreamEnds(c) PROVE \E s : BrowserSerialGoes(c, s)
  <2>1. PICK r, s : /\ r = [conn[c] EXCEPT !.pump = FALSE]
                    /\ s = r \/ s = BS!Finish(r, "closed-by-device")
                    /\ BS!Set(c, s)
    BY <1>2 DEF BS!StreamEnds
  <2>2. BrowserSerialRecord(r) /\ Same(conn[c], r, {})
    BY <2>1 DEF BrowserSerialRecord, Same, Facets
  <2>3. BrowserSerialRecord(s) /\ StepOf(r, s) /\ s.fd = r.fd
    <3>1. CASE s = r
      BY <2>2, <3>1, Quiet, BrowserSerialSound DEF Same
    <3>2. CASE s = BS!Finish(r, "closed-by-device")
      BY <2>2, <3>2, BrowserSerialEnded DEF Endings
    <3> QED BY <2>1, <3>1, <3>2
  <2>4. StepOf(conn[c], s) /\ s.fd = conn[c].fd
    BY <2>2, <2>3, StepFrom DEF Same, Facets
  <2> QED BY <2>1, <2>3, <2>4 DEF BrowserSerialGoes, BS!Set
<1>3. ASSUME BS!StreamFails(c) PROVE \E s : BrowserSerialGoes(c, s)
  <2>1. PICK r, s : r = [conn[c] EXCEPT !.pump = FALSE] /\ s = BS!Failed(r) /\ BS!Set(c, s)
    BY <1>3 DEF BS!StreamFails
  <2>2. BrowserSerialRecord(r) /\ Same(conn[c], r, {})
    BY <2>1 DEF BrowserSerialRecord, Same, Facets
  <2>3. BrowserSerialRecord(s) /\ StepOf(r, s) /\ s.fd = r.fd
    <3>1. CASE s = r
      BY <2>2, <3>1, Quiet, BrowserSerialSound DEF Same
    <3>2. CASE s # r
      <4>1. PICK q : q = BS!Finish(r, "device-lost")
        OBVIOUS
      <4>2. BS!Usable(r) /\ s = BS!Release(q)
        BY <2>1, <3>2, <4>1 DEF BS!Failed
      <4> QED BY <2>2, <4>1, <4>2, BrowserSerialEnded DEF Endings
    <3> QED BY <3>1, <3>2
  <2>4. StepOf(conn[c], s) /\ s.fd = conn[c].fd
    BY <2>2, <2>3, StepFrom DEF Same, Facets
  <2> QED BY <2>1, <2>3, <2>4 DEF BrowserSerialGoes, BS!Set
<1>4. ASSUME BS!Write(c) PROVE \E s : BrowserSerialGoes(c, s)
  <2>1. PICK s : s = [conn[c] EXCEPT !.receipt = "pending", !.flight = "sent"]
    OBVIOUS
  <2>2. ~conn[c].reading /\ conn[c].ended = NoEnding /\ conn[c].place = "live"
    BY <1>4 DEF BS!Write, BrowserSerialRecord, BS!Usable
  <2>3. BrowserSerialRecord(s) /\ Same(conn[c], s, {"receipt", "flight"}) /\ s.receipt = "pending"
    BY <1>4, <2>1, <2>2 DEF BS!Write, BrowserSerialRecord, Receipts, Same, Facets, BS!Usable
  <2>4. StepOf(conn[c], s) /\ s.fd = conn[c].fd
    BY <1>0, <1>4, <2>2, <2>3 DEF BS!Write, Same, Facets, StepOf, Sound, BS!Usable
  <2> QED BY <1>4, <2>1, <2>3, <2>4 DEF BrowserSerialGoes, BS!Write, BS!Set
<1>5. ASSUME BS!WriteSettles(c) PROVE \E s : BrowserSerialGoes(c, s)
  <2>1a. PICK outcome \in {"accepted-by-platform", "may-be-partial"} : \E r, s :
          /\ r = [conn[c] EXCEPT !.flight = "none", !.receipt = outcome]
          /\ outcome = "accepted-by-platform" => conn[c].flight = "taken"
          /\ s = r \/ s = BS!Failed(r)
          /\ BS!Set(c, s)
    BY <1>5 DEF BS!WriteSettles
  <2>1. PICK r, s :
          /\ r = [conn[c] EXCEPT !.flight = "none", !.receipt = outcome]
          /\ outcome = "accepted-by-platform" => conn[c].flight = "taken"
          /\ s = r \/ s = BS!Failed(r)
          /\ BS!Set(c, s)
    BY <2>1a
  <2>2. conn[c].receipt = "pending"
    BY <1>5 DEF BS!WriteSettles, BrowserSerialRecord
  <2>3. BrowserSerialRecord(r) /\ Same(conn[c], r, {"receipt", "flight"}) /\ r.receipt = outcome
    BY <2>1, <2>2 DEF BrowserSerialRecord, Receipts, Same, Facets
  <2>4. BrowserSerialRecord(s) /\ Same(r, s, {"ended", "heard", "reading"})
        /\ ((s.ended = r.ended /\ s.heard = r.heard /\ s.reading = r.reading)
            \/ /\ r.ended = NoEnding /\ r.place = "live"
               /\ s.ended = "device-lost" /\ s.heard = 0 /\ ~s.reading)
    <3>1. CASE s = r
      BY <2>3, <3>1 DEF Same
    <3>2. CASE s # r
      <4>1. PICK q : q = BS!Finish(r, "device-lost")
        OBVIOUS
      <4>2. BS!Usable(r) /\ s = BS!Release(q)
        BY <2>1, <3>2, <4>1 DEF BS!Failed
      <4>3. /\ BrowserSerialRecord(q) /\ Same(r, q, {"ended", "heard", "reading"})
            /\ q.ended = "device-lost" /\ q.heard = 0 /\ ~q.reading
        BY <2>3, <4>1, <4>2, BrowserSerialFinished DEF Endings
      <4>4. q.place = "live" /\ q.ended # NoEnding /\ r.place = "live" /\ r.ended = NoEnding
        BY <4>2, <4>3, EndingAssumption DEF BS!Usable, Same, Facets, Endings
      <4>5. BrowserSerialRecord(s) /\ Same(q, s, {})
        BY <4>2, <4>3, <4>4, BrowserSerialReleased
      <4> QED BY <4>3, <4>4, <4>5 DEF Same, Facets
    <3> QED BY <3>1, <3>2
  <2>5. StepOf(conn[c], s) /\ s.fd = conn[c].fd
    <3>1. /\ conn[c].receipt = "pending" /\ s.receipt = outcome /\ s.fd = conn[c].fd
          /\ outcome = "accepted-by-platform" => conn[c].flight = "taken"
          /\ Same(conn[c], s, {"receipt", "flight", "ended", "heard", "reading"})
      BY <2>1, <2>2, <2>3, <2>4 DEF Same, Facets
    <3>2. CASE s.ended = r.ended /\ s.heard = r.heard /\ s.reading = r.reading
      <4>1. s.ended = conn[c].ended /\ s.heard = conn[c].heard /\ s.reading = conn[c].reading
        BY <2>3, <3>2 DEF Same, Facets
      <4> QED BY <1>0, <3>1, <4>1 DEF Same, Facets, StepOf, Sound
    <3>3. CASE /\ r.ended = NoEnding /\ r.place = "live"
               /\ s.ended = "device-lost" /\ s.heard = 0 /\ ~s.reading
      <4>1. conn[c].ended = NoEnding /\ conn[c].place = "live" /\ s.ended \in Endings /\ s.ended # NoEnding
        BY <2>3, <3>3, EndingAssumption DEF Same, Facets, Endings
      <4> QED BY <1>0, <3>1, <3>3, <4>1 DEF Same, Facets, StepOf, Sound
    <3> QED BY <2>4, <3>2, <3>3
  <2> QED BY <2>1, <2>4, <2>5 DEF BrowserSerialGoes, BS!Set
<1>8. ASSUME NEW e \in {"fault", "receive-overflow"}, BS!Invalidate(c, e) PROVE \E s : BrowserSerialGoes(c, s)
  <2>1. PICK q, s : q = BS!Finish(conn[c], e) /\ s = BS!ReleaseAfterRecovery(q) /\ BS!Set(c, s)
    BY <1>8 DEF BS!Invalidate
  <2>2. BrowserSerialRecord(s) /\ StepOf(conn[c], s) /\ s.fd = conn[c].fd
    BY <1>8, <2>1, BrowserSerialEnded DEF BS!Invalidate, Endings
  <2> QED BY <2>1, <2>2 DEF BrowserSerialGoes, BS!Set
<1>6. ASSUME BS!Receive(c) PROVE \E s : BrowserSerialGoes(c, s)
  <2>1. CASE BS!Invalidate(c, "receive-overflow")
    BY <1>8, <2>1
  <2>2. CASE ~BS!Invalidate(c, "receive-overflow")
    <3>1. PICK s : s = [conn[c] EXCEPT !.heard = @ + 1] /\ BS!Set(c, s)
      BY <1>6, <2>2 DEF BS!Receive
    <3>2. conn[c].heard + 1 \in Nat /\ conn[c].ended = NoEnding
      BY <1>6 DEF BS!Receive, BS!Usable, BrowserSerialRecord
    <3>3. BrowserSerialRecord(s) /\ Same(conn[c], s, {"heard"}) /\ s.heard = conn[c].heard + 1
      BY <3>1, <3>2 DEF BrowserSerialRecord, Same, Facets
    <3>4. StepOf(conn[c], s) /\ s.fd = conn[c].fd
      BY <1>0, <3>2, <3>3 DEF Same, Facets, StepOf, Sound
    <3> QED BY <3>1, <3>3, <3>4 DEF BrowserSerialGoes, BS!Set
  <2> QED BY <2>1, <2>2
<1>7. ASSUME BS!Invalidate(c, "fault") PROVE \E s : BrowserSerialGoes(c, s)
  BY <1>7, <1>8
<1> QED BY <1>1, <1>2, <1>3, <1>4, <1>5, <1>6, <1>7

\* Its reads and its close().
LEMMA BrowserSerialStep3 ==
    ASSUME NEW c \in Conns, c \in DOMAIN conn, BrowserSerialRecord(conn[c])
    PROVE  /\ BS!BeginRead(c) => \E s : BrowserSerialGoes(c, s)
           /\ BS!EndRead(c) => \E s : BrowserSerialGoes(c, s)
           /\ BS!Collect(c) => \E s : BrowserSerialGoes(c, s)
           /\ BS!PlatformTakes(c) => \E s : BrowserSerialGoes(c, s)
           /\ BS!Close(c) => \E s : BrowserSerialGoes(c, s)
           /\ BS!CloseReleased(c) => \E s : BrowserSerialGoes(c, s)
           /\ BS!CloseRested(c) => \E s : BrowserSerialGoes(c, s)
<1>0. Sound(conn[c])
  BY BrowserSerialSound
<1>1. ASSUME BS!BeginRead(c) PROVE \E s : BrowserSerialGoes(c, s)
  <2>1. PICK s : s = [conn[c] EXCEPT !.reading = TRUE]
    OBVIOUS
  <2>2. conn[c].ended = NoEnding /\ conn[c].place = "live"
    BY <1>1 DEF BS!BeginRead, BrowserSerialRecord, BS!Usable
  <2>3. BrowserSerialRecord(s) /\ Same(conn[c], s, {"reading"}) /\ s.reading = TRUE
    BY <1>1, <2>1, <2>2 DEF BS!BeginRead, BrowserSerialRecord, Receipts, Same, Facets, BS!Usable
  <2>4. StepOf(conn[c], s) /\ s.fd = conn[c].fd
    BY <1>0, <1>1, <2>2, <2>3 DEF BS!BeginRead, Same, Facets, StepOf, Sound, BS!Usable
  <2> QED BY <1>1, <2>1, <2>3, <2>4 DEF BrowserSerialGoes, BS!BeginRead, BS!Set
<1>2. ASSUME BS!EndRead(c) PROVE \E s : BrowserSerialGoes(c, s)
  <2>1a. PICK heard \in Nat : \E s :
          /\ s = [conn[c] EXCEPT !.reading = FALSE, !.heard = heard]
          /\ heard <= conn[c].heard /\ BS!Set(c, s)
    <3>1. conn[c].heard \in Nat /\ (conn[c].heard > 0 => conn[c].heard - 1 \in Nat)
      BY DEF BrowserSerialRecord
    <3>2. [conn[c] EXCEPT !.reading = FALSE] = [conn[c] EXCEPT !.reading = FALSE, !.heard = conn[c].heard]
      BY DEF BrowserSerialRecord
    <3>3. CASE conn[c].heard > 0 /\ BS!Set(c, [conn[c] EXCEPT !.reading = FALSE, !.heard = @ - 1])
      <4>1. conn[c].heard - 1 \in Nat /\ conn[c].heard - 1 <= conn[c].heard
        BY <3>1, <3>3
      <4> QED BY <3>3, <4>1
    <3>4. CASE BS!Set(c, [conn[c] EXCEPT !.reading = FALSE])
      <4>1. BS!Set(c, [conn[c] EXCEPT !.reading = FALSE, !.heard = conn[c].heard])
        BY <3>2, <3>4
      <4>2. conn[c].heard <= conn[c].heard
        BY <3>1
      <4> QED BY <3>1, <4>1, <4>2
    <3> QED BY <1>2, <3>3, <3>4 DEF BS!EndRead
  <2>1. PICK s :
          /\ s = [conn[c] EXCEPT !.reading = FALSE, !.heard = heard]
          /\ heard <= conn[c].heard /\ BS!Set(c, s)
    BY <2>1a
  <2>2. BrowserSerialRecord(s) /\ Same(conn[c], s, {"heard", "reading"}) /\ s.heard = heard /\ ~s.reading
    BY <1>2, <2>1 DEF BS!EndRead, BrowserSerialRecord, Same, Facets
  <2>3. conn[c].ended = NoEnding
    BY <1>2 DEF BS!EndRead, BrowserSerialRecord
  <2>4. StepOf(conn[c], s) /\ s.fd = conn[c].fd
    BY <1>0, <2>1, <2>2, <2>3 DEF Same, Facets, StepOf, Sound
  <2> QED BY <2>1, <2>2, <2>4 DEF BrowserSerialGoes, BS!Set
<1>3. ASSUME BS!Collect(c) PROVE \E s : BrowserSerialGoes(c, s)
  <2>1. PICK s : s = [conn[c] EXCEPT !.receipt = "none"]
    OBVIOUS
  <2>2. BrowserSerialRecord(s) /\ Same(conn[c], s, {"receipt"}) /\ s.receipt = "none"
    BY <1>3, <2>1 DEF BS!Collect, BrowserSerialRecord, Receipts, Same, Facets
  <2>3. StepOf(conn[c], s) /\ s.fd = conn[c].fd
    BY <1>0, <1>3, <2>2 DEF BS!Collect, Same, Facets, StepOf, Sound
  <2> QED BY <1>3, <2>1, <2>2, <2>3 DEF BrowserSerialGoes, BS!Collect, BS!Set
<1>4. ASSUME BS!PlatformTakes(c) PROVE \E s : BrowserSerialGoes(c, s)
  <2>1. PICK s : s = [conn[c] EXCEPT !.flight = "taken"]
    OBVIOUS
  <2>2. BrowserSerialRecord(s) /\ Same(conn[c], s, {"flight"})
    BY <1>4, <2>1 DEF BS!PlatformTakes, BrowserSerialRecord, Receipts, Same, Facets
  <2>3. StepOf(conn[c], s) /\ s.fd = conn[c].fd
    BY <1>0, <2>2, Quiet DEF Same, Facets
  <2> QED BY <1>4, <2>1, <2>2, <2>3 DEF BrowserSerialGoes, BS!PlatformTakes, BS!Set
<1>5. ASSUME BS!Close(c) PROVE \E s : BrowserSerialGoes(c, s)
  <2>1. PICK r, s : /\ r = [conn[c] EXCEPT !.closer = "releasing", !.hostClosing = BS!Usable(conn[c])]
                    /\ s = BS!Release(r) /\ BS!Set(c, s)
    BY <1>5 DEF BS!Close
  <2>2. /\ BrowserSerialRecord(r) /\ Same(conn[c], r, {"closer"}) /\ r.closer = "releasing"
        /\ conn[c].closer = "none" /\ conn[c].place = "live" /\ r.place = "live"
    <3>1. BS!Usable(conn[c]) \in BOOLEAN
      BY DEF BS!Usable
    <3> QED BY <1>5, <2>1, <3>1 DEF BS!Close, BrowserSerialRecord, Same, Facets
  <2>3. BrowserSerialRecord(s) /\ Same(r, s, {})
    BY <2>1, <2>2, BrowserSerialReleased
  <2>4. StepOf(conn[c], s) /\ s.fd = conn[c].fd
    BY <1>0, <2>2, <2>3 DEF Same, Facets, StepOf, Sound
  <2> QED BY <2>1, <2>3, <2>4 DEF BrowserSerialGoes, BS!Set
<1>6. ASSUME BS!CloseReleased(c) PROVE \E s : BrowserSerialGoes(c, s)
  <2>1a. PICK e \in Endings : \E q, s :
          /\ q = BS!Finish(conn[c], e) /\ s = [q EXCEPT !.closer = "resting"]
          /\ BS!Set(c, s)
    <3>1. "closed-by-host" \in Endings /\ "fault" \in Endings
      BY DEF Endings
    <3> QED BY <1>6, <3>1 DEF BS!CloseReleased
  <2>1. PICK q, s :
          /\ q = BS!Finish(conn[c], e) /\ s = [q EXCEPT !.closer = "resting"]
          /\ BS!Set(c, s)
    BY <2>1a
  <2>2. conn[c].closer = "releasing" /\ conn[c].release \in {"done", "failed"} /\ conn[c].place = "live"
    BY <1>6 DEF BS!CloseReleased, BrowserSerialRecord
  <2>3. /\ BrowserSerialRecord(q) /\ Same(conn[c], q, {"ended", "heard", "reading"})
        /\ q.release = conn[c].release
        /\ IF BS!Usable(conn[c]) THEN q.ended = e /\ q.heard = 0 /\ ~q.reading ELSE q = conn[c]
    BY <2>1, BrowserSerialFinished
  <2>4. q.ended # NoEnding
    BY <2>2, <2>3, EndingAssumption DEF BS!Usable
  <2>5. BrowserSerialRecord(s) /\ Same(q, s, {"closer"}) /\ s.closer = "resting"
    BY <2>1, <2>2, <2>3, <2>4 DEF BrowserSerialRecord, Same, Facets
  <2>6. StepOf(conn[c], s) /\ s.fd = conn[c].fd
    BY <1>0, <2>2, <2>3, <2>4, <2>5 DEF BS!Usable, Same, Facets, StepOf, Sound
  <2> QED BY <2>1, <2>5, <2>6 DEF BrowserSerialGoes, BS!Set
<1>7. ASSUME BS!CloseRested(c) PROVE \E s : BrowserSerialGoes(c, s)
  <2>1. PICK s : s = [conn[c] EXCEPT !.closer = "answered"]
    OBVIOUS
  <2>2. conn[c].ended # NoEnding /\ (conn[c].fd # "none" => conn[c].refused)
    BY <1>7 DEF BS!CloseRested, BrowserSerialRecord
  <2>3. BrowserSerialRecord(s) /\ Same(conn[c], s, {"closer"}) /\ s.closer = "answered"
    BY <1>7, <2>1, <2>2 DEF BS!CloseRested, BrowserSerialRecord, Receipts, Same, Facets
  <2>4. StepOf(conn[c], s) /\ s.fd = conn[c].fd
    BY <1>0, <1>7, <2>2, <2>3 DEF BS!CloseRested, Same, Facets, StepOf, Sound
  <2> QED BY <1>7, <2>1, <2>3, <2>4 DEF BrowserSerialGoes, BS!CloseRested, BS!Set
<1> QED BY <1>1, <1>2, <1>3, <1>4, <1>5, <1>6, <1>7

-----------------------------------------------------------------------------
\* The values one Node serial connection ranges over.
NodeSerialType(r) ==
    r \in [place : {"idle", "recovering", "opening", "draining", "abandoning", "resting", "live", "failed"},
           fd : {"none", "open", "closing", "dying"}, ended : Endings \cup {NoEnding},
           closer : {"none", "releasing", "resting", "keeping", "releasingLate", "answered"},
           hostClosing : BOOLEAN, wake : Int, receipt : Receipts,
           flight : {"none", "sent", "taken"}, reading : BOOLEAN, heard : Nat,
           refused : BOOLEAN, owed : Int, early : BOOLEAN, arbitration : Int]

\* The invariant of one Node serial connection.
NodeSerialRecord(r) ==
    /\ NodeSerialType(r)
    /\ r.closer # "none" => r.place = "live"
    /\ r.hostClosing => r.closer # "none"
    /\ r.ended # NoEnding => r.heard = 0 /\ ~r.reading
    /\ r.place = "draining" => r.fd \in {"none", "open"}
    /\ r.closer \in {"releasing", "releasingLate"} => r.fd = "closing"
    /\ r.fd = "closing" => r.closer \in {"releasing", "releasingLate"} \/ r.place = "abandoning"
    /\ r.closer \in {"resting", "keeping", "releasingLate", "answered"} => r.ended # NoEnding
    /\ r.closer = "resting" => r.fd \in {"none", "dying"} \/ r.refused

\* One Node serial connection takes a step that its invariant and the contract allow.
NodeSerialGoes(c, s) ==
    /\ conn' = [conn EXCEPT ![c] = s] /\ NodeSerialRecord(s) /\ StepOf(conn[c], s)
    /\ conn[c].fd = "none" => s.fd = "none" \/ NS!Unheld(c)
    /\ recovery' \in Int

\* It is stronger than Sound.
LEMMA NodeSerialSound == ASSUME NEW r, NodeSerialRecord(r) PROVE Sound(r)
BY DEF NodeSerialRecord, NodeSerialType, Sound

\* The recovery that a path is owed stays a number.
LEMMA NodeSerialNoted ==
    ASSUME NEW r, NEW e, recovery \in Int
    PROVE  NS!Noted(r, e) \in Int
BY SilenceAssumption DEF NS!Noted, NS!Larger, NS!SilenceOf

\* An ending of a usable connection settles its write; of another, it is nothing.
NodeSerialEnding(r, s, e) ==
    /\ NodeSerialType(s) /\ Same(r, s, {"ended", "heard", "reading", "receipt"})
    /\ s.hostClosing = r.hostClosing
    /\ IF NS!Usable(r)
       THEN /\ s.ended = e /\ s.heard = 0 /\ ~s.reading
            /\ s.receipt = IF r.receipt = "pending" THEN "may-be-partial" ELSE r.receipt
       ELSE s = r

\* An ending: the first one stays, and the input is discarded with it.
LEMMA NodeSerialFinished ==
    ASSUME NEW r, NodeSerialType(r), NEW e \in Endings, NEW s, s = NS!Finish(r, e)
    PROVE  NodeSerialEnding(r, s, e)
<1>1. CASE NS!Usable(r)
  <2>1. NS!Larger(r.owed, NS!SilenceOf(e)) \in Int /\ NS!Off \in Int
    BY SilenceAssumption DEF NodeSerialType, NS!Larger, NS!SilenceOf, NS!Off
  <2>2. PICK q : q = NS!Finished(r, e)
    OBVIOUS
  <2>3. /\ NodeSerialType(q) /\ Same(r, q, {"ended", "heard", "reading"})
        /\ q.hostClosing = r.hostClosing
        /\ q.ended = e /\ q.heard = 0 /\ ~q.reading
    BY <1>1, <2>1, <2>2 DEF NS!Finished, NodeSerialType, Same, Facets
  <2>4. s = [q EXCEPT !.arbitration = NS!Off, !.receipt = IF @ = "pending" THEN "may-be-partial" ELSE @]
    BY <1>1, <2>2 DEF NS!Finish
  <2>5. (IF q.receipt = "pending" THEN "may-be-partial" ELSE q.receipt) \in Receipts
    BY <2>3 DEF NodeSerialType, Receipts
  <2>6. /\ NodeSerialType(s) /\ Same(q, s, {"receipt"})
        /\ s.hostClosing = q.hostClosing
        /\ s.receipt = IF q.receipt = "pending" THEN "may-be-partial" ELSE q.receipt
    BY <2>1, <2>3, <2>4, <2>5 DEF NodeSerialType, Same, Facets
  <2>7. q.receipt = r.receipt
    BY <2>3 DEF Same, Facets
  <2> QED BY <1>1, <2>3, <2>6, <2>7 DEF Same, Facets, NodeSerialEnding
<1>2. CASE ~NS!Usable(r)
  BY <1>2 DEF NS!Finish, Same, NodeSerialEnding
<1> QED BY <1>1, <1>2

\* The ending of a connection is a step of the contract.
LEMMA NodeSerialEnded ==
    ASSUME NEW r, NodeSerialRecord(r), NEW e \in Endings, NEW s, NodeSerialEnding(r, s, e),
           e = "closed-by-host" => r.closer # "none"
    PROVE  NodeSerialRecord(s) /\ StepOf(r, s) /\ s.fd = r.fd
<1>1. Sound(r)
  BY NodeSerialSound
<1>2. StepOf(r, s) /\ s.fd = r.fd
  BY <1>1, EndingAssumption DEF NodeSerialEnding, NS!Usable, StepOf, Same, Facets, Sound
<1>3. NodeSerialRecord(s)
  BY EndingAssumption DEF NodeSerialEnding, NodeSerialRecord, NodeSerialType, NS!Usable,
     Same, Facets
<1> QED BY <1>2, <1>3

\* The close() of a connection that has ended: it keeps the handle, or releases it.
LEMMA NodeSerialKept ==
    ASSUME NEW r, NodeSerialRecord(r), r.place = "live", r.ended # NoEnding, r.closer \in {"none", "keeping"},
           NEW remaining \in Int, NEW s, s = NS!Keep(r, remaining) \/ s = NS!ReleaseLate(r)
    PROVE  /\ NodeSerialRecord(s) /\ Same(r, s, {"closer", "fd"}) /\ s.closer # "none"
           /\ s.fd = "none" <=> r.fd = "none"
           /\ s.closer = "answered" => s.fd \in {"none", "dying"}
<1>1. NS!Off \in Int
  BY DEF NS!Off
<1>2. CASE s = [r EXCEPT !.closer = "keeping", !.wake = remaining]
  BY <1>2 DEF NodeSerialRecord, NodeSerialType, Same, Facets
<1>3. CASE s = NS!ReleaseLate(r)
  <2>1. CASE r.fd = "open"
    <3>1. s = [r EXCEPT !.closer = "releasingLate", !.fd = "closing", !.wake = NS!Off]
      BY <1>3, <2>1 DEF NS!ReleaseLate
    <3> QED BY <1>1, <2>1, <3>1 DEF NodeSerialRecord, NodeSerialType, Same, Facets
  <2>2. CASE r.fd # "open"
    <3>1. s = [r EXCEPT !.closer = "answered", !.wake = NS!Off]
      BY <1>3, <2>2 DEF NS!ReleaseLate
    <3> QED BY <1>1, <2>2, <3>1 DEF NodeSerialRecord, NodeSerialType, Same, Facets
  <2> QED BY <2>1, <2>2
<1> QED BY <1>2, <1>3 DEF NS!Keep

\* The end of a close() that the host made of a connection in use.
LEMMA NodeSerialRests ==
    ASSUME NEW r, NodeSerialType(r), NEW e \in Endings, NEW remaining \in Int,
           NEW s, s = NS!Waiting(NS!Finish(r, e), remaining, "closer", "resting", "answered")
    PROVE  \E q : /\ NodeSerialEnding(r, q, e) /\ Same(q, s, {"closer"}) /\ s.hostClosing = q.hostClosing
                  /\ NodeSerialType(s) /\ s.closer \in {"resting", "answered"}
<1>1. PICK q : q = NS!Finish(r, e)
  OBVIOUS
<1>2. NodeSerialEnding(r, q, e)
  BY <1>1, NodeSerialFinished
<1>4. PICK closer \in {"resting", "answered"}, wake \in Int : s = [q EXCEPT !.closer = closer, !.wake = wake]
  <2>1. NS!Off \in Int
    BY DEF NS!Off
  <2>2. CASE remaining > 0
    BY <1>1, <2>2 DEF NS!Waiting
  <2>3. CASE ~(remaining > 0)
    BY <1>1, <2>1, <2>3 DEF NS!Waiting
  <2> QED BY <2>2, <2>3
<1>5. NodeSerialType(s) /\ Same(q, s, {"closer"}) /\ s.closer = closer /\ s.hostClosing = q.hostClosing
  <2>1. NodeSerialType(q)
    BY <1>2 DEF NodeSerialEnding
  <2> QED BY <1>4, <2>1 DEF NodeSerialType, Same, Facets
<1> QED BY <1>2, <1>4, <1>5

\* open() of a Node serial connection.
LEMMA NodeSerialStep1 ==
    ASSUME NEW c \in Conns, c \in DOMAIN conn, recovery \in Int, NodeSerialRecord(conn[c])
    PROVE  /\ NS!Open(c) => \E s : NodeSerialGoes(c, s)
           /\ NS!Recovered(c) => \E s : NodeSerialGoes(c, s)
           /\ NS!NativeOpened(c) => \E s : NodeSerialGoes(c, s)
           /\ NS!OpeningEvent(c) => \E s : NodeSerialGoes(c, s)
           /\ NS!Drained(c) => \E s : NodeSerialGoes(c, s)
           /\ NS!Abandon(c) => \E s : NodeSerialGoes(c, s)
           /\ NS!Abandoned(c) => \E s : NodeSerialGoes(c, s)
           /\ NS!Rested(c) => \E s : NodeSerialGoes(c, s)
<1>0. Sound(conn[c])
  BY NodeSerialSound
<1>1. ASSUME NS!Open(c) PROVE \E s : NodeSerialGoes(c, s)
  <2>1. PICK s : s = NS!Waiting(conn[c], recovery, "place", "recovering", "opening")
    OBVIOUS
  <2>3. PICK place \in {"recovering", "opening"}, wake \in Int : s = [conn[c] EXCEPT !.place = place, !.wake = wake]
    <3>1. NS!Off \in Int
      BY DEF NS!Off
    <3>2. CASE recovery > 0
      BY <2>1, <3>2 DEF NS!Waiting
    <3>3. CASE ~(recovery > 0)
      BY <2>1, <3>1, <3>3 DEF NS!Waiting
    <3> QED BY <3>2, <3>3
  <2>4. NodeSerialRecord(s) /\ Same(conn[c], s, {"place"}) /\ conn[c].place = "idle"
    BY <1>1, <2>3 DEF NS!Open, NodeSerialRecord, NodeSerialType, Same, Facets
  <2>5. StepOf(conn[c], s) /\ s.fd = conn[c].fd
    BY <1>0, <2>4, Quiet DEF Same, Facets
  <2> QED BY <1>1, <2>1, <2>4, <2>5 DEF NodeSerialGoes, NS!Open, NS!Set
<1>2. ASSUME NS!Recovered(c) PROVE \E s : NodeSerialGoes(c, s)
  <2>1. PICK s : s = [conn[c] EXCEPT !.place = "opening", !.wake = NS!Off]
    OBVIOUS
  <2>2. NS!Off \in Int
    BY <1>2 DEF NS!Recovered, NodeSerialRecord, NodeSerialType, NS!Off
  <2>3. NodeSerialRecord(s) /\ Same(conn[c], s, {"place"}) /\ conn[c].place = "recovering"
    BY <1>2, <2>1, <2>2 DEF NS!Recovered, NodeSerialRecord, NodeSerialType, Receipts,
       Same, Facets, NS!Off
  <2>4. StepOf(conn[c], s) /\ s.fd = conn[c].fd
    BY <1>0, <2>3, Quiet DEF Same, Facets
  <2>5. recovery' \in Int
    BY <1>2 DEF NS!Recovered
  <2> QED BY <1>2, <2>1, <2>3, <2>4, <2>5 DEF NodeSerialGoes, NS!Recovered, NS!Set
<1>3. ASSUME NS!NativeOpened(c) PROVE \E s : NodeSerialGoes(c, s)
  <2>1. PICK s : \/ NS!Unheld(c) /\ s = [conn[c] EXCEPT !.place = "draining", !.fd = "open"] /\ NS!Set(c, s)
                 \/ s = [conn[c] EXCEPT !.place = "failed"] /\ NS!Set(c, s)
    BY <1>3 DEF NS!NativeOpened
  <2>2. conn[c].place = "opening" /\ recovery' = recovery
    BY <1>3 DEF NS!NativeOpened
  <2>3. NodeSerialRecord(s) /\ Same(conn[c], s, {"place", "fd"})
    <3>1. CASE s = [conn[c] EXCEPT !.place = "draining", !.fd = "open"]
      BY <2>2, <3>1 DEF NodeSerialRecord, NodeSerialType, Same, Facets
    <3>2. CASE s = [conn[c] EXCEPT !.place = "failed"]
      BY <2>2, <3>2 DEF NodeSerialRecord, NodeSerialType, Same, Facets
    <3> QED BY <2>1, <3>1, <3>2
  <2>4. s.fd = conn[c].fd \/ NS!Unheld(c)
    BY <2>1 DEF NodeSerialRecord, NodeSerialType
  <2>5. StepOf(conn[c], s)
    BY <1>0, <2>2, <2>3 DEF Same, Facets, Sound, StepOf
  <2> QED BY <2>1, <2>2, <2>3, <2>4, <2>5 DEF NodeSerialGoes, NS!Set
<1>4. ASSUME NS!OpeningEvent(c) PROVE \E s : NodeSerialGoes(c, s)
  <2>1a. PICK fd \in {conn[c].fd, "none"} : \E s :
          s = [conn[c] EXCEPT !.early = TRUE, !.fd = fd] /\ NS!Set(c, s)
    BY <1>4 DEF NS!OpeningEvent
  <2>1. PICK s :
          s = [conn[c] EXCEPT !.early = TRUE, !.fd = fd] /\ NS!Set(c, s)
    BY <2>1a
  <2>2. /\ NodeSerialRecord(s) /\ Same(conn[c], s, {"fd"}) /\ conn[c].place = "draining"
        /\ s.fd \in {conn[c].fd, "none"}
    BY <1>4, <2>1 DEF NS!OpeningEvent, NodeSerialRecord, NodeSerialType, Same, Facets
  <2>3. StepOf(conn[c], s)
    BY <1>0, <2>2 DEF Same, Facets, Sound, StepOf
  <2> QED BY <1>4, <2>1, <2>2, <2>3 DEF NodeSerialGoes, NS!OpeningEvent, NS!Set
<1>5. ASSUME NS!Drained(c) PROVE \E s : NodeSerialGoes(c, s)
  <2>1. PICK s : s = [conn[c] EXCEPT !.place = "live"]
    OBVIOUS
  <2>2. NodeSerialRecord(s) /\ Same(conn[c], s, {"place"}) /\ s.place = "live"
    BY <1>5, <2>1 DEF NS!Drained, NodeSerialRecord, NodeSerialType, Receipts, Same, Facets
  <2>3. StepOf(conn[c], s) /\ s.fd = conn[c].fd
    BY <1>0, <2>2, Quiet DEF Same, Facets
  <2> QED BY <1>5, <2>1, <2>2, <2>3 DEF NodeSerialGoes, NS!Drained, NS!Set
<1>6. ASSUME NS!Abandon(c) PROVE \E s : NodeSerialGoes(c, s)
  <2>1. PICK s : s = [conn[c] EXCEPT !.place = "abandoning", !.fd = IF @ = "open" THEN "closing" ELSE @]
    OBVIOUS
  <2>2. /\ NodeSerialRecord(s) /\ Same(conn[c], s, {"place", "fd"}) /\ conn[c].place = "draining"
        /\ s.fd = "none" <=> conn[c].fd = "none"
    BY <1>6, <2>1 DEF NS!Abandon, NodeSerialRecord, NodeSerialType, Same, Facets
  <2>3. StepOf(conn[c], s)
    BY <1>0, <2>2 DEF Same, Facets, Sound, StepOf
  <2> QED BY <1>6, <2>1, <2>2, <2>3 DEF NodeSerialGoes, NS!Abandon, NS!Set
<1>7. ASSUME NS!Abandoned(c) PROVE \E s : NodeSerialGoes(c, s)
  <2>1a. PICK fd \in {"none", "open"} : \E r, s :
          /\ fd = "open" => conn[c].fd = "closing"
          /\ r = [conn[c] EXCEPT !.fd = fd, !.refused = (fd = "open"), !.owed = Abnormal]
          /\ s = NS!Waiting(r, recovery', "place", "resting", "failed") /\ NS!Set(c, s)
    BY <1>7 DEF NS!Abandoned
  <2>1. PICK r, s :
          /\ fd = "open" => conn[c].fd = "closing"
          /\ r = [conn[c] EXCEPT !.fd = fd, !.refused = (fd = "open"), !.owed = Abnormal]
          /\ s = NS!Waiting(r, recovery', "place", "resting", "failed") /\ NS!Set(c, s)
    BY <2>1a
  <2>2. recovery' \in Int /\ Abnormal \in Int /\ conn[c].place = "abandoning"
    BY <1>7, SilenceAssumption DEF NS!Abandoned, NS!Larger
  <2>3. /\ NodeSerialRecord(r) /\ Same(conn[c], r, {"fd", "refused"}) /\ r.place = "abandoning" /\ r.fd = fd
    BY <2>1, <2>2 DEF NodeSerialRecord, NodeSerialType, Same, Facets
  <2>4. PICK place \in {"resting", "failed"}, wake \in Int : s = [r EXCEPT !.place = place, !.wake = wake]
    <3>1. NS!Off \in Int
      BY DEF NS!Off
    <3>2. CASE recovery' > 0
      BY <2>1, <2>2, <3>2 DEF NS!Waiting
    <3>3. CASE ~(recovery' > 0)
      BY <2>1, <3>1, <3>3 DEF NS!Waiting
    <3> QED BY <3>2, <3>3
  <2>5. NodeSerialRecord(s) /\ Same(r, s, {"place"})
    <3>1. r.fd # "closing" /\ r.closer = "none"
      BY <2>3 DEF NodeSerialRecord, NodeSerialType
    <3> QED BY <2>3, <2>4, <3>1 DEF NodeSerialRecord, NodeSerialType, Same, Facets
  <2>6. Same(conn[c], s, {"place", "fd", "refused"}) /\ (s.fd = "none" \/ conn[c].fd # "none")
    <3>1. s.fd = fd
      BY <2>3, <2>5 DEF Same, Facets
    <3>2. Same(conn[c], s, {"place", "fd", "refused"})
      BY <2>3, <2>5 DEF Same
    <3> QED BY <2>1, <3>1, <3>2
  <2>7. StepOf(conn[c], s)
    BY <1>0, <2>2, <2>6 DEF Same, Facets, Sound, StepOf
  <2> QED BY <2>1, <2>2, <2>5, <2>6, <2>7 DEF NodeSerialGoes, NS!Set
<1>8. ASSUME NS!Rested(c) PROVE \E s : NodeSerialGoes(c, s)
  <2>1. PICK s : s = [conn[c] EXCEPT !.place = "failed", !.wake = NS!Off]
    OBVIOUS
  <2>2. NS!Off \in Int
    BY <1>8 DEF NS!Rested, NodeSerialRecord, NodeSerialType, NS!Off
  <2>3. NodeSerialRecord(s) /\ Same(conn[c], s, {"place"}) /\ conn[c].place = "resting"
    BY <1>8, <2>1, <2>2 DEF NS!Rested, NodeSerialRecord, NodeSerialType, Receipts, Same,
       Facets, NS!Off
  <2>4. StepOf(conn[c], s) /\ s.fd = conn[c].fd
    BY <1>0, <2>3, Quiet DEF Same, Facets
  <2>5. recovery' \in Int
    BY <1>8 DEF NS!Rested
  <2> QED BY <1>8, <2>1, <2>3, <2>4, <2>5 DEF NodeSerialGoes, NS!Rested, NS!Set
<1> QED BY <1>1, <1>2, <1>3, <1>4, <1>5, <1>6, <1>7, <1>8

\* The errors and the close the native port reports.
LEMMA NodeSerialStep2 ==
    ASSUME NEW c \in Conns, c \in DOMAIN conn, recovery \in Int, NodeSerialRecord(conn[c])
    PROVE  /\ NS!LossError(c) => \E s : NodeSerialGoes(c, s)
           /\ NS!RejectionError(c) => \E s : NodeSerialGoes(c, s)
           /\ NS!PlainError(c) => \E s : NodeSerialGoes(c, s)
           /\ NS!Arbitrated(c) => \E s : NodeSerialGoes(c, s)
           /\ NS!NativeClosed(c) => \E s : NodeSerialGoes(c, s)
<1>0. Sound(conn[c])
  BY NodeSerialSound
<1>1. ASSUME NS!LossError(c) PROVE \E s : NodeSerialGoes(c, s)
  <2>1. PICK r, s : /\ r = [conn[c] EXCEPT !.fd = "dying"] /\ NS!Set(c, s)
                    /\ s = r \/ s = NS!Finish(r, "device-lost")
                    /\ recovery' = recovery \/ recovery' = NS!Noted(r, "device-lost")
    BY <1>1 DEF NS!LossError
  <2>2. /\ NodeSerialRecord(r) /\ Same(conn[c], r, {"fd"}) /\ r.fd = "dying"
        /\ conn[c].fd = "open" /\ conn[c].place = "live"
    BY <1>1, <2>1 DEF NS!LossError, NodeSerialRecord, NodeSerialType, Same, Facets
  <2>3. NodeSerialRecord(s) /\ StepOf(r, s) /\ s.fd = r.fd
    <3>1. CASE s = r
      BY <2>2, <3>1, Quiet, NodeSerialSound DEF Same
    <3>2. CASE s = NS!Finish(r, "device-lost")
      <4>1. "device-lost" \in Endings
        BY DEF Endings
      <4>2. NodeSerialEnding(r, s, "device-lost")
        BY <2>2, <3>2, <4>1, NodeSerialFinished DEF NodeSerialRecord, NodeSerialType
      <4> QED BY <2>2, <4>1, <4>2, NodeSerialEnded DEF NodeSerialEnding
    <3> QED BY <2>1, <3>1, <3>2
  <2>4. StepOf(conn[c], s)
    BY <2>2, <2>3, StaysHeld
  <2> QED BY <2>1, <2>2, <2>3, <2>4, NodeSerialNoted DEF NodeSerialGoes, NS!Set
<1>2. ASSUME NS!RejectionError(c) PROVE \E s : NodeSerialGoes(c, s)
  <2>1a. PICK arbitration \in Int : \E s :
          s = [conn[c] EXCEPT !.fd = "dying", !.arbitration = arbitration] /\ NS!Set(c, s)
    <3>1. conn[c].arbitration \in Int /\ Arbitration \in Int
      BY BoundsAssumption DEF NodeSerialRecord, NodeSerialType
    <3> QED BY <1>2, <3>1 DEF NS!RejectionError
  <2>1. PICK s :
          s = [conn[c] EXCEPT !.fd = "dying", !.arbitration = arbitration] /\ NS!Set(c, s)
    BY <2>1a
  <2>2. NodeSerialRecord(s) /\ Same(conn[c], s, {"fd"}) /\ s.fd = "dying" /\ conn[c].fd = "open"
    BY <1>2, <2>1 DEF NS!RejectionError, NodeSerialRecord, NodeSerialType, Same, Facets
  <2>3. StepOf(conn[c], s)
    BY <1>0, <2>2 DEF Same, Facets, Sound, StepOf
  <2> QED BY <1>2, <2>1, <2>2, <2>3 DEF NodeSerialGoes, NS!RejectionError, NS!Set
<1>6. ASSUME NS!End(c, "fault") PROVE \E s : NodeSerialGoes(c, s)
  <2>1. PICK s : s = NS!Finish(conn[c], "fault") /\ NS!Set(c, s)
    BY <1>6 DEF NS!End
  <2>2. "fault" \in Endings
    BY DEF Endings
  <2>3. NodeSerialEnding(conn[c], s, "fault")
    BY <2>1, <2>2, NodeSerialFinished DEF NodeSerialRecord, NodeSerialType
  <2>4. NodeSerialRecord(s) /\ StepOf(conn[c], s) /\ s.fd = conn[c].fd
    BY <2>2, <2>3, NodeSerialEnded DEF NodeSerialEnding
  <2> QED BY <1>6, <2>1, <2>4, NodeSerialNoted DEF NodeSerialGoes, NS!End, NS!Set
<1>3. ASSUME NS!PlainError(c) PROVE \E s : NodeSerialGoes(c, s)
  BY <1>3, <1>6 DEF NS!PlainError
<1>4. ASSUME NS!Arbitrated(c) PROVE \E s : NodeSerialGoes(c, s)
  BY <1>4, <1>6 DEF NS!Arbitrated
<1>5. ASSUME NS!NativeClosed(c) PROVE \E s : NodeSerialGoes(c, s)
  <2>1. PICK r, e, s : /\ r = [conn[c] EXCEPT !.fd = "none"]
                       /\ e = IF r.hostClosing THEN "closed-by-host" ELSE "device-lost"
                       /\ s = NS!Finish(r, e) /\ NS!Set(c, s) /\ recovery' = NS!Noted(r, e)
    BY <1>5 DEF NS!NativeClosed
  <2>2. /\ NodeSerialRecord(r) /\ Same(conn[c], r, {"fd"}) /\ r.fd = "none"
        /\ conn[c].place = "live" /\ conn[c].fd # "none"
    BY <1>5, <2>1 DEF NS!NativeClosed, NodeSerialRecord, NodeSerialType, Same, Facets
  <2>3. e \in Endings /\ (e = "closed-by-host" => r.closer # "none")
    BY <2>1, <2>2 DEF Endings, NodeSerialRecord, NodeSerialType
  <2>4. NodeSerialEnding(r, s, e)
    BY <2>1, <2>2, <2>3, NodeSerialFinished DEF NodeSerialRecord, NodeSerialType
  <2>5. NodeSerialRecord(s) /\ StepOf(r, s) /\ s.fd = "none" /\ s.ended # NoEnding
    <3>1. s.ended # NoEnding
      BY <2>2, <2>3, <2>4, EndingAssumption DEF NodeSerialEnding, NS!Usable, Same, Facets
    <3> QED BY <2>2, <2>3, <2>4, <3>1, NodeSerialEnded DEF NodeSerialEnding
  <2>6. StepOf(conn[c], s)
    BY <2>2, <2>5 DEF StepOf, Same, Facets
  <2> QED BY <2>1, <2>5, <2>6, NodeSerialNoted DEF NodeSerialGoes, NS!Set
<1> QED BY <1>1, <1>2, <1>3, <1>4, <1>5

\* Its reads and its writes.
LEMMA NodeSerialStep3 ==
    ASSUME NEW c \in Conns, c \in DOMAIN conn, recovery \in Int, NodeSerialRecord(conn[c])
    PROVE  /\ NS!BeginRead(c) /\ UNCHANGED recovery => \E s : NodeSerialGoes(c, s)
           /\ NS!EndRead(c) /\ UNCHANGED recovery => \E s : NodeSerialGoes(c, s)
           /\ NS!Collect(c) /\ UNCHANGED recovery => \E s : NodeSerialGoes(c, s)
           /\ NS!PlatformTakes(c) /\ UNCHANGED recovery => \E s : NodeSerialGoes(c, s)
           /\ NS!Write(c) => \E s : NodeSerialGoes(c, s)
           /\ NS!WriteCallback(c) => \E s : NodeSerialGoes(c, s)
<1>0. Sound(conn[c])
  BY NodeSerialSound
<1>1. ASSUME NS!BeginRead(c), UNCHANGED recovery PROVE \E s : NodeSerialGoes(c, s)
  <2>1. PICK s : s = [conn[c] EXCEPT !.reading = TRUE]
    OBVIOUS
  <2>2. conn[c].ended = NoEnding /\ conn[c].place = "live"
    BY <1>1 DEF NS!BeginRead, NodeSerialRecord, NodeSerialType, NS!Usable
  <2>3. NodeSerialRecord(s) /\ Same(conn[c], s, {"reading"}) /\ s.reading = TRUE
    BY <1>1, <2>1, <2>2 DEF NS!BeginRead, NodeSerialRecord, NodeSerialType, Receipts,
       Same, Facets, NS!Usable
  <2>4. StepOf(conn[c], s) /\ s.fd = conn[c].fd
    BY <1>0, <1>1, <2>2, <2>3 DEF NS!BeginRead, Same, Facets, StepOf, Sound, NS!Usable
  <2> QED BY <1>1, <2>1, <2>3, <2>4 DEF NodeSerialGoes, NS!BeginRead, NS!Set
<1>2. ASSUME NS!EndRead(c), UNCHANGED recovery PROVE \E s : NodeSerialGoes(c, s)
  <2>1a. PICK heard \in Nat : \E s :
          /\ s = [conn[c] EXCEPT !.reading = FALSE, !.heard = heard]
          /\ heard <= conn[c].heard /\ NS!Set(c, s)
    <3>1. conn[c].heard \in Nat /\ (conn[c].heard > 0 => conn[c].heard - 1 \in Nat)
      BY DEF NodeSerialRecord, NodeSerialType
    <3>2. [conn[c] EXCEPT !.reading = FALSE] = [conn[c] EXCEPT !.reading = FALSE, !.heard = conn[c].heard]
      BY DEF NodeSerialRecord, NodeSerialType
    <3>3. CASE conn[c].heard > 0 /\ NS!Set(c, [conn[c] EXCEPT !.reading = FALSE, !.heard = @ - 1])
      <4>1. conn[c].heard - 1 \in Nat /\ conn[c].heard - 1 <= conn[c].heard
        BY <3>1, <3>3
      <4> QED BY <3>3, <4>1
    <3>4. CASE NS!Set(c, [conn[c] EXCEPT !.reading = FALSE])
      <4>1. NS!Set(c, [conn[c] EXCEPT !.reading = FALSE, !.heard = conn[c].heard])
        BY <3>2, <3>4
      <4>2. conn[c].heard <= conn[c].heard
        BY <3>1
      <4> QED BY <3>1, <4>1, <4>2
    <3> QED BY <1>2, <3>3, <3>4 DEF NS!EndRead
  <2>1. PICK s :
          /\ s = [conn[c] EXCEPT !.reading = FALSE, !.heard = heard]
          /\ heard <= conn[c].heard /\ NS!Set(c, s)
    BY <2>1a
  <2>2. NodeSerialRecord(s) /\ Same(conn[c], s, {"heard", "reading"}) /\ s.heard = heard /\ ~s.reading
    BY <1>2, <2>1 DEF NS!EndRead, NodeSerialRecord, NodeSerialType, Same, Facets
  <2>3. conn[c].ended = NoEnding
    BY <1>2 DEF NS!EndRead, NodeSerialRecord, NodeSerialType
  <2>4. StepOf(conn[c], s) /\ s.fd = conn[c].fd
    BY <1>0, <2>1, <2>2, <2>3 DEF Same, Facets, StepOf, Sound
  <2> QED BY <1>2, <2>1, <2>2, <2>4 DEF NodeSerialGoes, NS!Set
<1>3. ASSUME NS!Collect(c), UNCHANGED recovery PROVE \E s : NodeSerialGoes(c, s)
  <2>1. PICK s : s = [conn[c] EXCEPT !.receipt = "none"]
    OBVIOUS
  <2>2. NodeSerialRecord(s) /\ Same(conn[c], s, {"receipt"}) /\ s.receipt = "none"
    BY <1>3, <2>1 DEF NS!Collect, NodeSerialRecord, NodeSerialType, Receipts, Same, Facets
  <2>3. StepOf(conn[c], s) /\ s.fd = conn[c].fd
    BY <1>0, <1>3, <2>2 DEF NS!Collect, Same, Facets, StepOf, Sound
  <2> QED BY <1>3, <2>1, <2>2, <2>3 DEF NodeSerialGoes, NS!Collect, NS!Set
<1>4. ASSUME NS!PlatformTakes(c), UNCHANGED recovery PROVE \E s : NodeSerialGoes(c, s)
  <2>1. PICK s : s = [conn[c] EXCEPT !.flight = "taken"]
    OBVIOUS
  <2>2. NodeSerialRecord(s) /\ Same(conn[c], s, {"flight"})
    BY <1>4, <2>1 DEF NS!PlatformTakes, NodeSerialRecord, NodeSerialType, Receipts, Same, Facets
  <2>3. StepOf(conn[c], s) /\ s.fd = conn[c].fd
    BY <1>0, <2>2, Quiet DEF Same, Facets
  <2> QED BY <1>4, <2>1, <2>2, <2>3 DEF NodeSerialGoes, NS!PlatformTakes, NS!Set
<1>5. ASSUME NS!Write(c) PROVE \E s : NodeSerialGoes(c, s)
  <2>1. PICK s : s = [conn[c] EXCEPT !.receipt = "pending", !.flight = "sent"]
    OBVIOUS
  <2>2. ~conn[c].reading /\ conn[c].ended = NoEnding /\ conn[c].place = "live"
    BY <1>5 DEF NS!Write, NodeSerialRecord, NodeSerialType, NS!Usable
  <2>3. NodeSerialRecord(s) /\ Same(conn[c], s, {"receipt", "flight"}) /\ s.receipt = "pending"
    BY <1>5, <2>1, <2>2 DEF NS!Write, NodeSerialRecord, NodeSerialType, Receipts, Same,
       Facets, NS!Usable
  <2>4. StepOf(conn[c], s) /\ s.fd = conn[c].fd
    BY <1>0, <1>5, <2>2, <2>3 DEF NS!Write, Same, Facets, StepOf, Sound, NS!Usable
  <2> QED BY <1>5, <2>1, <2>3, <2>4 DEF NodeSerialGoes, NS!Write, NS!Set
<1>6. ASSUME NS!WriteCallback(c) PROVE \E s : NodeSerialGoes(c, s)
  <2>1a. PICK outcome \in {"accepted-by-platform", "may-be-partial"} : \E s :
          /\ s = NS!Settled(conn[c], outcome) /\ NS!Set(c, s)
          /\ outcome = "accepted-by-platform" => conn[c].flight = "taken"
    BY <1>6 DEF NS!WriteCallback
  <2>1. PICK s :
          /\ s = NS!Settled(conn[c], outcome) /\ NS!Set(c, s)
          /\ outcome = "accepted-by-platform" => conn[c].flight = "taken"
    BY <2>1a
  <2>2. PICK receipt \in {conn[c].receipt, outcome} :
          /\ receipt # conn[c].receipt => receipt = outcome /\ conn[c].receipt = "pending"
          /\ s = [conn[c] EXCEPT !.receipt = receipt, !.flight = "none"]
    BY <2>1 DEF NS!Settled
  <2>3. receipt \in Receipts
    <3>1. conn[c].receipt \in Receipts
      BY DEF NodeSerialRecord, NodeSerialType
    <3>2. outcome \in Receipts
      BY DEF Receipts
    <3> QED BY <3>1, <3>2
  <2>4. NodeSerialRecord(s) /\ Same(conn[c], s, {"receipt", "flight"}) /\ s.receipt = receipt
    <3>1. s = [conn[c] EXCEPT !.receipt = receipt, !.flight = "none"]
      BY <2>2
    <3> QED BY <2>3, <3>1 DEF NodeSerialRecord, NodeSerialType, Same, Facets
  <2>5. StepOf(conn[c], s) /\ s.fd = conn[c].fd
    BY <1>0, <2>1, <2>2, <2>4 DEF Same, Facets, StepOf, Sound
  <2> QED BY <1>6, <2>1, <2>4, <2>5 DEF NodeSerialGoes, NS!WriteCallback, NS!Set
<1> QED BY <1>1, <1>2, <1>3, <1>4, <1>5, <1>6

\* What arrives, its faults and its close().
LEMMA NodeSerialStep4 ==
    ASSUME NEW c \in Conns, c \in DOMAIN conn, recovery \in Int, NodeSerialRecord(conn[c])
    PROVE  /\ NS!Receive(c) => \E s : NodeSerialGoes(c, s)
           /\ NS!Invalidate(c, "fault") => \E s : NodeSerialGoes(c, s)
           /\ NS!Close(c) => \E s : NodeSerialGoes(c, s)
           /\ NS!Released(c) => \E s : NodeSerialGoes(c, s)
           /\ NS!Kept(c) => \E s : NodeSerialGoes(c, s)
           /\ NS!ReleasedLate(c) => \E s : NodeSerialGoes(c, s)
           /\ NS!CloseRested(c) => \E s : NodeSerialGoes(c, s)
<1>0. Sound(conn[c])
  BY NodeSerialSound
<1>8. ASSUME NEW e \in {"fault", "receive-overflow"}, NS!Invalidate(c, e) PROVE \E s : NodeSerialGoes(c, s)
  <2>1. PICK r, s : /\ r = NS!Finish(conn[c], e) /\ s = IF r.closer = "none" THEN NS!Keep(r, recovery') ELSE r
                    /\ NS!Set(c, s) /\ recovery' = NS!Noted(conn[c], e) /\ NS!Usable(conn[c])
    BY <1>8 DEF NS!Invalidate
  <2>2. recovery' \in Int /\ e \in Endings /\ e # "closed-by-host"
    BY <2>1, NodeSerialNoted DEF Endings
  <2>3. NodeSerialEnding(conn[c], r, e)
    BY <2>1, <2>2, NodeSerialFinished DEF NodeSerialRecord, NodeSerialType
  <2>4. /\ NodeSerialRecord(r) /\ StepOf(conn[c], r) /\ r.fd = conn[c].fd
        /\ r.ended # NoEnding /\ r.place = "live"
    BY <2>1, <2>2, <2>3, NodeSerialEnded, EndingAssumption DEF NodeSerialEnding,
       NS!Usable, Same, Facets
  <2>5. CASE r.closer # "none"
    BY <2>1, <2>2, <2>4, <2>5 DEF NodeSerialGoes, NS!Set
  <2>6. CASE r.closer = "none"
    <3>1. /\ NodeSerialRecord(s) /\ Same(r, s, {"closer", "fd"}) /\ s.closer # "none"
          /\ s.fd = "none" <=> r.fd = "none"
          /\ s.closer = "answered" => s.fd \in {"none", "dying"}
      BY <2>1, <2>2, <2>4, <2>6, NodeSerialKept
    <3>2. StepOf(conn[c], s) /\ (s.fd = "none" <=> conn[c].fd = "none")
      BY <2>4, <2>6, <3>1 DEF Same, Facets, StepOf
    <3> QED BY <2>1, <2>2, <3>1, <3>2 DEF NodeSerialGoes, NS!Set
  <2> QED BY <2>5, <2>6
<1>1. ASSUME NS!Receive(c) PROVE \E s : NodeSerialGoes(c, s)
  <2>1. CASE NS!Invalidate(c, "receive-overflow")
    BY <1>8, <2>1
  <2>2. CASE ~NS!Invalidate(c, "receive-overflow")
    <3>1. PICK s : s = [conn[c] EXCEPT !.heard = @ + 1] /\ NS!Set(c, s) /\ UNCHANGED recovery
      BY <1>1, <2>2 DEF NS!Receive
    <3>2. conn[c].heard + 1 \in Nat /\ conn[c].ended = NoEnding
      BY <1>1 DEF NS!Receive, NS!Usable, NodeSerialRecord, NodeSerialType
    <3>3. NodeSerialRecord(s) /\ Same(conn[c], s, {"heard"}) /\ s.heard = conn[c].heard + 1
      BY <3>1, <3>2 DEF NodeSerialRecord, NodeSerialType, Same, Facets
    <3>4. StepOf(conn[c], s) /\ s.fd = conn[c].fd
      BY <1>0, <3>2, <3>3 DEF Same, Facets, StepOf, Sound
    <3> QED BY <3>1, <3>3, <3>4 DEF NodeSerialGoes, NS!Set
  <2> QED BY <2>1, <2>2
<1>2. ASSUME NS!Invalidate(c, "fault") PROVE \E s : NodeSerialGoes(c, s)
  BY <1>2, <1>8
<1>3. ASSUME NS!Close(c) PROVE \E s : NodeSerialGoes(c, s)
  <2>0. conn[c].place = "live" /\ conn[c].closer = "none"
    BY <1>3 DEF NS!Close
  <2>1. CASE ~NS!Usable(conn[c])
    <3>1. PICK s : s = NS!Keep(conn[c], recovery) /\ NS!Set(c, s) /\ UNCHANGED recovery
      BY <1>3, <2>1 DEF NS!Close
    <3>2. conn[c].ended # NoEnding
      BY <2>0, <2>1 DEF NS!Usable
    <3>3. /\ NodeSerialRecord(s) /\ Same(conn[c], s, {"closer", "fd"}) /\ s.closer # "none"
          /\ s.fd = "none" <=> conn[c].fd = "none"
          /\ s.closer = "answered" => s.fd \in {"none", "dying"}
      BY <2>0, <3>1, <3>2, NodeSerialKept
    <3>4. StepOf(conn[c], s)
      BY <1>0, <2>0, <3>2, <3>3 DEF Same, Facets, StepOf, Sound
    <3> QED BY <3>1, <3>3, <3>4 DEF NodeSerialGoes, NS!Set
  <2>2. CASE NS!Usable(conn[c]) /\ conn[c].fd = "open"
    <3>1. PICK s : /\ s = [conn[c] EXCEPT !.hostClosing = TRUE, !.closer = "releasing", !.fd = "closing"]
                   /\ NS!Set(c, s) /\ UNCHANGED recovery
      BY <1>3, <2>2 DEF NS!Close
    <3>2. /\ NodeSerialRecord(s) /\ Same(conn[c], s, {"closer", "fd"})
          /\ s.closer = "releasing" /\ s.fd = "closing"
      BY <2>0, <2>2, <3>1 DEF NodeSerialRecord, NodeSerialType, Same, Facets
    <3>3. StepOf(conn[c], s)
      BY <1>0, <2>0, <2>2, <3>2 DEF Same, Facets, StepOf, Sound
    <3> QED BY <2>2, <3>1, <3>2, <3>3 DEF NodeSerialGoes, NS!Set
  <2>3. CASE NS!Usable(conn[c]) /\ conn[c].fd # "open"
    <3>1. PICK p, s : /\ p = NS!Finish([conn[c] EXCEPT !.hostClosing = TRUE], "closed-by-host")
                      /\ s = NS!Waiting(p, recovery', "closer", "resting", "answered")
                      /\ NS!Set(c, s) /\ recovery' = NS!Noted(conn[c], "closed-by-host")
      BY <1>3, <2>3 DEF NS!Close
    <3>2. PICK r : r = [conn[c] EXCEPT !.hostClosing = TRUE]
      OBVIOUS
    <3>3. NodeSerialType(r) /\ Same(conn[c], r, {})
      BY <3>2 DEF NodeSerialRecord, NodeSerialType, Same, Facets
    <3>4. recovery' \in Int /\ "closed-by-host" \in Endings
      BY <3>1, NodeSerialNoted DEF Endings
    <3>5. PICK q : /\ NodeSerialEnding(r, q, "closed-by-host") /\ Same(q, s, {"closer"})
                   /\ NodeSerialType(s) /\ s.closer \in {"resting", "answered"}
      BY <3>1, <3>2, <3>3, <3>4, NodeSerialRests
    <3>6. /\ Same(conn[c], s, {"ended", "heard", "reading", "receipt", "closer"})
          /\ s.ended = "closed-by-host" /\ s.heard = 0 /\ ~s.reading
          /\ s.receipt = IF conn[c].receipt = "pending" THEN "may-be-partial" ELSE conn[c].receipt
          /\ conn[c].ended = NoEnding
      BY <2>3, <3>3, <3>5 DEF NodeSerialEnding, NS!Usable, Same, Facets
    <3>7. s.fd = conn[c].fd /\ s.fd \in {"none", "dying"} /\ s.place = "live"
      BY <2>0, <2>3, <3>6 DEF NodeSerialRecord, NodeSerialType, Same, Facets
    <3>8. NodeSerialRecord(s)
      BY <3>4, <3>5, <3>6, <3>7, EndingAssumption DEF NodeSerialRecord, NodeSerialType
    <3>9. StepOf(conn[c], s)
      BY <1>0, <2>0, <3>4, <3>5, <3>6, <3>7, EndingAssumption DEF StepOf, Same, Facets, Sound
    <3> QED BY <3>1, <3>4, <3>7, <3>8, <3>9 DEF NodeSerialGoes, NS!Set
  <2> QED BY <2>1, <2>2, <2>3
<1>4. ASSUME NS!Released(c) PROVE \E s : NodeSerialGoes(c, s)
  <2>1a. PICK done \in BOOLEAN, e \in Endings : \E r, s :
          /\ r = [conn[c] EXCEPT !.fd = IF done THEN "none" ELSE "open", !.refused = ~done]
          /\ s = NS!Waiting(NS!Finish(r, e), recovery', "closer", "resting", "answered")
          /\ NS!Set(c, s) /\ recovery' = NS!Noted(r, e)
    <3>1. "closed-by-host" \in Endings /\ "fault" \in Endings
      BY DEF Endings
    <3> QED BY <1>4, <3>1 DEF NS!Released
  <2>1. PICK r, s :
          /\ r = [conn[c] EXCEPT !.fd = IF done THEN "none" ELSE "open", !.refused = ~done]
          /\ s = NS!Waiting(NS!Finish(r, e), recovery', "closer", "resting", "answered")
          /\ NS!Set(c, s) /\ recovery' = NS!Noted(r, e)
    BY <2>1a
  <2>2. conn[c].closer = "releasing" /\ conn[c].place = "live" /\ conn[c].fd = "closing"
    BY <1>4 DEF NS!Released, NodeSerialRecord, NodeSerialType
  <2>3. /\ NodeSerialType(r) /\ Same(conn[c], r, {"fd", "refused"})
        /\ r.fd = (IF done THEN "none" ELSE "open") /\ (r.fd = "open" => r.refused)
    BY <2>1 DEF NodeSerialRecord, NodeSerialType, Same, Facets
  <2>4. recovery' \in Int
    BY <2>1, NodeSerialNoted
  <2>5. PICK q : /\ NodeSerialEnding(r, q, e) /\ Same(q, s, {"closer"})
                 /\ NodeSerialType(s) /\ s.closer \in {"resting", "answered"}
    BY <2>1, <2>3, <2>4, NodeSerialRests
  <2>6. /\ Same(conn[c], s, {"ended", "heard", "reading", "receipt", "closer", "fd", "refused"})
        /\ s.fd = r.fd /\ s.refused = r.refused /\ s.place = "live"
    BY <2>2, <2>3, <2>5 DEF NodeSerialEnding, Same, Facets
  <2>7. CASE conn[c].ended = NoEnding
    <3>1. /\ s.ended = e /\ s.heard = 0 /\ ~s.reading
          /\ s.receipt = IF conn[c].receipt = "pending" THEN "may-be-partial" ELSE conn[c].receipt
      BY <2>2, <2>3, <2>5, <2>7 DEF NodeSerialEnding, NS!Usable, Same, Facets
    <3>2. NodeSerialRecord(s)
      BY <2>3, <2>5, <2>6, <3>1, EndingAssumption DEF NodeSerialRecord, NodeSerialType
    <3>3. StepOf(conn[c], s)
      BY <1>0, <2>2, <2>3, <2>5, <2>6, <2>7, <3>1, EndingAssumption DEF StepOf, Same, Facets, Sound
    <3> QED BY <2>1, <2>2, <2>4, <3>2, <3>3 DEF NodeSerialGoes, NS!Set
  <2>8. CASE conn[c].ended # NoEnding
    <3>1. /\ s.ended = conn[c].ended /\ s.heard = conn[c].heard /\ s.reading = conn[c].reading
          /\ s.receipt = conn[c].receipt
      BY <2>3, <2>5, <2>8 DEF NodeSerialEnding, NS!Usable, Same, Facets
    <3>2. NodeSerialRecord(s)
      BY <2>3, <2>5, <2>6, <2>8, <3>1 DEF NodeSerialRecord, NodeSerialType
    <3>3. StepOf(conn[c], s)
      BY <1>0, <2>2, <2>3, <2>5, <2>6, <2>8, <3>1 DEF StepOf, Same, Facets, Sound
    <3> QED BY <2>1, <2>2, <2>4, <3>2, <3>3 DEF NodeSerialGoes, NS!Set
  <2> QED BY <2>7, <2>8
<1>5. ASSUME NS!Kept(c) PROVE \E s : NodeSerialGoes(c, s)
  <2>1. PICK s : s = NS!ReleaseLate(conn[c]) /\ NS!Set(c, s) /\ recovery' = 0
    BY <1>5 DEF NS!Kept
  <2>2. conn[c].closer = "keeping" /\ conn[c].place = "live" /\ conn[c].ended # NoEnding
    BY <1>5 DEF NS!Kept, NodeSerialRecord, NodeSerialType
  <2>3. /\ NodeSerialRecord(s) /\ Same(conn[c], s, {"closer", "fd"}) /\ s.closer # "none"
        /\ s.fd = "none" <=> conn[c].fd = "none"
        /\ s.closer = "answered" => s.fd \in {"none", "dying"}
    BY <2>1, <2>2, NodeSerialKept
  <2>4. StepOf(conn[c], s) /\ recovery' \in Int
    BY <1>0, <2>1, <2>2, <2>3 DEF Same, Facets, StepOf, Sound
  <2> QED BY <2>1, <2>3, <2>4 DEF NodeSerialGoes, NS!Set
<1>6. ASSUME NS!ReleasedLate(c) PROVE \E s : NodeSerialGoes(c, s)
  <2>1a. PICK done \in BOOLEAN : \E s :
          /\ s = [conn[c] EXCEPT !.closer = "answered", !.refused = ~done,
                                 !.fd = IF done THEN "none" ELSE "open"]
          /\ NS!Set(c, s) /\ UNCHANGED recovery
    BY <1>6 DEF NS!ReleasedLate
  <2>1. PICK s :
          /\ s = [conn[c] EXCEPT !.closer = "answered", !.refused = ~done,
                                 !.fd = IF done THEN "none" ELSE "open"]
          /\ NS!Set(c, s) /\ UNCHANGED recovery
    BY <2>1a
  <2>2. conn[c].closer = "releasingLate" /\ conn[c].ended # NoEnding /\ conn[c].fd = "closing"
    BY <1>6 DEF NS!ReleasedLate, NodeSerialRecord, NodeSerialType
  <2>3. /\ NodeSerialRecord(s) /\ Same(conn[c], s, {"closer", "fd", "refused"})
        /\ s.closer = "answered" /\ s.fd \in {"none", "open"} /\ (s.fd = "open" => s.refused)
    BY <2>1, <2>2 DEF NodeSerialRecord, NodeSerialType, Same, Facets
  <2>4. StepOf(conn[c], s)
    BY <1>0, <2>2, <2>3 DEF Same, Facets, StepOf, Sound
  <2> QED BY <2>1, <2>2, <2>3, <2>4 DEF NodeSerialGoes, NS!Set
<1>7. ASSUME NS!CloseRested(c) PROVE \E s : NodeSerialGoes(c, s)
  <2>1. PICK s : s = [conn[c] EXCEPT !.closer = "answered", !.wake = NS!Off]
    OBVIOUS
  <2>2. NS!Off \in Int /\ conn[c].ended # NoEnding /\ (conn[c].fd \in {"none", "dying"} \/ conn[c].refused)
    BY <1>7 DEF NS!CloseRested, NodeSerialRecord, NodeSerialType, NS!Off
  <2>3. NodeSerialRecord(s) /\ Same(conn[c], s, {"closer"}) /\ s.closer = "answered"
    BY <1>7, <2>1, <2>2 DEF NS!CloseRested, NodeSerialRecord, NodeSerialType, Receipts,
       Same, Facets, NS!Off
  <2>4. StepOf(conn[c], s) /\ s.fd = conn[c].fd
    BY <1>0, <1>7, <2>2, <2>3 DEF NS!CloseRested, Same, Facets, StepOf, Sound, NS!Off
  <2>5. recovery' \in Int
    BY <1>7 DEF NS!CloseRested
  <2> QED BY <1>7, <2>1, <2>3, <2>4, <2>5 DEF NodeSerialGoes, NS!CloseRested, NS!Set
<1> QED BY <1>1, <1>2, <1>3, <1>4, <1>5, <1>6, <1>7

-----------------------------------------------------------------------------
\* A timer can be set without the contract noticing.
LEMMA NodeSerialTimers ==
    ASSUME NEW r, NodeSerialRecord(r), NEW i \in Int,
           NEW s, \/ s = [r EXCEPT !.wake = i]
                  \/ s = [r EXCEPT !.owed = i]
                  \/ s = [r EXCEPT !.arbitration = i]
    PROVE  NodeSerialRecord(s) /\ Same(r, s, {})
<1>1. CASE s = [r EXCEPT !.wake = i]
  BY <1>1 DEF NodeSerialRecord, NodeSerialType, Same, Facets
<1>2. CASE s = [r EXCEPT !.owed = i]
  BY <1>2 DEF NodeSerialRecord, NodeSerialType, Same, Facets
<1>3. CASE s = [r EXCEPT !.arbitration = i]
  BY <1>3 DEF NodeSerialRecord, NodeSerialType, Same, Facets
<1> QED BY <1>1, <1>2, <1>3

\* A timer can be set without the contract noticing.
LEMMA BrowserSerialTimers ==
    ASSUME NEW r, BrowserSerialRecord(r), NEW i \in Int,
           NEW s, \/ s = [r EXCEPT !.wake = i]
                  \/ s = [r EXCEPT !.owed = i]
    PROVE  BrowserSerialRecord(s) /\ Same(r, s, {})
<1>1. CASE s = [r EXCEPT !.wake = i]
  BY <1>1 DEF BrowserSerialRecord, Same, Facets
<1>2. CASE s = [r EXCEPT !.owed = i]
  BY <1>2 DEF BrowserSerialRecord, Same, Facets
<1> QED BY <1>1, <1>2

\* Every step of the Node USB adapter keeps its invariant and is a step of the
\* contract, or none.
LEMMA NodeUsbLink ==
    ASSUME DOMAIN conn = Conns, \A c \in Conns : NodeUsbRecord(conn[c]), NU!UsbNext
    PROVE  /\ DOMAIN conn' = Conns /\ \A c \in Conns : NodeUsbRecord(conn'[c])
           /\ Contract!Next \/ UNCHANGED Contract!vars
<1>2. CASE \E c \in Conns : \E s : NodeUsbGoes(c, s)
  <2>1a. PICK c \in Conns : \E s :
          NodeUsbGoes(c, s)
    BY <1>2
  <2>1. PICK s :
          NodeUsbGoes(c, s)
    BY <2>1a
  <2>2. /\ conn' = [conn EXCEPT ![c] = s] /\ NodeUsbRecord(s) /\ StepOf(conn[c], s)
        /\ conn[c].fd = "none" => s.fd = "none" \/ NU!Unheld(c)
    BY <2>1 DEF NodeUsbGoes
  <2>3. DOMAIN conn' = Conns /\ conn'[c] = s /\ \A d \in Conns \ {c} : conn'[d] = conn[d]
    BY <2>2
  <2>4. Contract!Next
    BY <2>2, <2>3, Lifted DEF NU!Unheld, Unheld
  <2> QED BY <2>1, <2>2, <2>3, <2>4
<1>3. \E c \in Conns : \E s : NodeUsbGoes(c, s)
  <2>1. PICK c \in Conns : 
          \/ NU!Open(c) \/ NU!NativeOpened(c) \/ NU!Ready(c) \/ NU!OpenFails(c)
          \/ NU!InputArrives(c) \/ NU!InputEmpty(c) \/ NU!InputFails(c) \/ NU!Read(c)
          \/ NU!Collect(c) \/ NU!PlatformTakes(c) \/ NU!Write(c)
          \/ NU!WriteRefused(c) \/ NU!OutputSettles(c) \/ NU!Close(c)
          \/ NU!Invalidate(c, "fault") \/ NU!TransfersSettled(c)
          \/ NU!DeviceClosed(c)
    BY DEF NU!UsbNext, NU!Progress, NU!Settles
  <2> QED BY <2>1, NodeUsbStep1, NodeUsbStep2
<1> QED BY <1>2, <1>3

\* Every step of the browser USB adapter keeps its invariant and is a step of the
\* contract, or none.
LEMMA BrowserUsbLink ==
    ASSUME DOMAIN conn = Conns, \A c \in Conns : BrowserUsbRecord(conn[c]), BU!UsbNext
    PROVE  /\ DOMAIN conn' = Conns /\ \A c \in Conns : BrowserUsbRecord(conn'[c])
           /\ Contract!Next \/ UNCHANGED Contract!vars
<1>2. CASE \E c \in Conns : \E s : BrowserUsbGoes(c, s)
  <2>1a. PICK c \in Conns : \E s :
          BrowserUsbGoes(c, s)
    BY <1>2
  <2>1. PICK s :
          BrowserUsbGoes(c, s)
    BY <2>1a
  <2>2. /\ conn' = [conn EXCEPT ![c] = s] /\ BrowserUsbRecord(s) /\ StepOf(conn[c], s)
        /\ conn[c].fd = "none" => s.fd = "none" \/ BU!Unheld(c)
    BY <2>1 DEF BrowserUsbGoes
  <2>3. DOMAIN conn' = Conns /\ conn'[c] = s /\ \A d \in Conns \ {c} : conn'[d] = conn[d]
    BY <2>2
  <2>4. Contract!Next
    BY <2>2, <2>3, Lifted DEF BU!Unheld, Unheld
  <2> QED BY <2>1, <2>2, <2>3, <2>4
<1>3. \E c \in Conns : \E s : BrowserUsbGoes(c, s)
  <2>1. PICK c \in Conns : 
          \/ BU!Open(c) \/ BU!NativeOpened(c) \/ BU!Ready(c) \/ BU!OpenFails(c)
          \/ BU!InputSettles(c) \/ BU!DisconnectEvent(c) \/ BU!Read(c)
          \/ BU!Collect(c) \/ BU!PlatformTakes(c) \/ BU!Write(c)
          \/ BU!WriteRefused(c) \/ BU!OutputSettles(c) \/ BU!Close(c)
          \/ BU!Invalidate(c, "fault") \/ BU!Released(c) \/ BU!DeviceClosed(c)
    BY DEF BU!UsbNext, BU!Progress
  <2> QED BY <2>1, BrowserUsbStep1, BrowserUsbStep2
<1> QED BY <1>2, <1>3

\* Every step of the browser serial adapter keeps its invariant and is a step of the
\* contract, or none.
LEMMA BrowserSerialLink ==
    ASSUME DOMAIN conn = Conns, \A c \in Conns : BrowserSerialRecord(conn[c]), BS!BrowserNext
    PROVE  /\ DOMAIN conn' = Conns /\ \A c \in Conns : BrowserSerialRecord(conn'[c])
           /\ Contract!Next \/ UNCHANGED Contract!vars
<1>1. CASE BS!Tick
  <2>1. \A c \in Conns : BrowserSerialRecord(conn'[c]) /\ Same(conn[c], conn'[c], {})
    <3> SUFFICES ASSUME NEW c \in Conns
                 PROVE  BrowserSerialRecord(conn'[c]) /\ Same(conn[c], conn'[c], {})
      OBVIOUS
    <3>1. \A i \in Int : BS!Less(i) \in Int
      BY DEF BS!Less
    <3>2. /\ conn'[c] = [conn[c] EXCEPT !.wake = BS!Less(@), !.owed = BS!Less(@)]
          /\ BrowserSerialRecord(conn[c])
      BY <1>1 DEF BS!Tick
    <3>3. BS!Less(conn[c].wake) \in Int /\ BS!Less(conn[c].owed) \in Int
      <4>1. conn[c].wake \in Int /\ conn[c].owed \in Int
        BY <3>2 DEF BrowserSerialRecord
      <4> QED BY <3>1, <4>1
    <3> PICK p : p = [conn[c] EXCEPT !.wake = BS!Less(conn[c].wake)]
      OBVIOUS
    <3>4. BrowserSerialRecord(p) /\ Same(conn[c], p, {})
      BY <3>2, <3>3, BrowserSerialTimers
    <3> PICK q : q = [p EXCEPT !.owed = BS!Less(conn[c].owed)]
      OBVIOUS
    <3>5. BrowserSerialRecord(q) /\ Same(p, q, {})
      BY <3>2, <3>3, <3>4, BrowserSerialTimers
    <3>6. conn'[c] = q
      BY <3>2
    <3> QED BY <3>4, <3>5, <3>6 DEF Same
  <2>2. DOMAIN conn' = Conns
    BY <1>1 DEF BS!Tick
  <2>3. UNCHANGED Contract!vars
    BY <2>1 DEF Contract!vars, Same, Facets
  <2> QED BY <2>1, <2>2, <2>3
<1>2. CASE \E c \in Conns : \E s : BrowserSerialGoes(c, s)
  <2>1a. PICK c \in Conns : \E s :
          BrowserSerialGoes(c, s)
    BY <1>2
  <2>1. PICK s :
          BrowserSerialGoes(c, s)
    BY <2>1a
  <2>2. /\ conn' = [conn EXCEPT ![c] = s] /\ BrowserSerialRecord(s) /\ StepOf(conn[c], s)
        /\ conn[c].fd = "none" => s.fd = "none" \/ BS!Unheld(c)
    BY <2>1 DEF BrowserSerialGoes
  <2>3. DOMAIN conn' = Conns /\ conn'[c] = s /\ \A d \in Conns \ {c} : conn'[d] = conn[d]
    BY <2>2
  <2>4. Contract!Next
    BY <2>2, <2>3, Lifted DEF BS!Unheld, Unheld
  <2> QED BY <2>1, <2>2, <2>3, <2>4
<1>3. ~BS!Tick => \E c \in Conns : \E s : BrowserSerialGoes(c, s)
  <2> SUFFICES ASSUME ~BS!Tick PROVE \E c \in Conns : \E s : BrowserSerialGoes(c, s)
    OBVIOUS
  <2>1. PICK c \in Conns : 
          \/ BS!Open(c) \/ BS!Locked(c) \/ BS!NativeOpened(c) \/ BS!Drained(c)
          \/ BS!DrainFails(c) \/ BS!Abandoned(c) \/ BS!Rested(c)
          \/ BS!RecoveryElapsed(c) \/ BS!Cancelled(c) \/ BS!PortClosed(c)
          \/ BS!DisconnectEvent(c) \/ BS!StreamEnds(c) \/ BS!StreamFails(c)
          \/ BS!Write(c) \/ BS!WriteSettles(c) \/ BS!Receive(c)
          \/ BS!Invalidate(c, "fault") \/ BS!BeginRead(c) \/ BS!EndRead(c)
          \/ BS!Collect(c) \/ BS!PlatformTakes(c) \/ BS!Close(c)
          \/ BS!CloseReleased(c) \/ BS!CloseRested(c)
    BY DEF BS!BrowserNext, BS!Channel, BS!Progress
  <2> QED BY <2>1, BrowserSerialStep1, BrowserSerialStep2, BrowserSerialStep3
<1> QED BY <1>1, <1>2, <1>3

\* Every step of the Node serial adapter keeps its invariant and is a step of the
\* contract, or none.
LEMMA NodeSerialLink ==
    ASSUME DOMAIN conn = Conns, recovery \in Int, \A c \in Conns : NodeSerialRecord(conn[c]), NS!SerialNext
    PROVE  /\ DOMAIN conn' = Conns /\ recovery' \in Int /\ \A c \in Conns : NodeSerialRecord(conn'[c])
           /\ Contract!Next \/ UNCHANGED Contract!vars
<1>1. CASE NS!Tick
  <2>1. \A c \in Conns : NodeSerialRecord(conn'[c]) /\ Same(conn[c], conn'[c], {})
    <3> SUFFICES ASSUME NEW c \in Conns
                 PROVE  NodeSerialRecord(conn'[c]) /\ Same(conn[c], conn'[c], {})
      OBVIOUS
    <3>1. \A i \in Int : NS!Less(i) \in Int
      BY DEF NS!Less
    <3>2. /\ conn'[c] = [conn[c] EXCEPT !.wake = NS!Less(@), !.owed = NS!Less(@), !.arbitration = NS!Less(@)]
          /\ NodeSerialRecord(conn[c])
      BY <1>1 DEF NS!Tick
    <3>3. NS!Less(conn[c].wake) \in Int /\ NS!Less(conn[c].owed) \in Int /\ NS!Less(conn[c].arbitration) \in Int
      <4>1. conn[c].wake \in Int /\ conn[c].owed \in Int /\ conn[c].arbitration \in Int
        BY <3>2 DEF NodeSerialRecord, NodeSerialType
      <4> QED BY <3>1, <4>1
    <3> PICK p : p = [conn[c] EXCEPT !.wake = NS!Less(conn[c].wake)]
      OBVIOUS
    <3>4. NodeSerialRecord(p) /\ Same(conn[c], p, {})
      BY <3>2, <3>3, NodeSerialTimers
    <3> PICK q : q = [p EXCEPT !.owed = NS!Less(conn[c].owed)]
      OBVIOUS
    <3>5. NodeSerialRecord(q) /\ Same(p, q, {})
      BY <3>2, <3>3, <3>4, NodeSerialTimers
    <3> PICK r : r = [q EXCEPT !.arbitration = NS!Less(conn[c].arbitration)]
      OBVIOUS
    <3>6. NodeSerialRecord(r) /\ Same(q, r, {})
      BY <3>2, <3>3, <3>4, <3>5, NodeSerialTimers
    <3>7. conn'[c] = r
      BY <3>2
    <3> QED BY <3>4, <3>5, <3>6, <3>7 DEF Same
  <2>2. DOMAIN conn' = Conns
    BY <1>1 DEF NS!Tick
  <2>3. UNCHANGED Contract!vars
    BY <2>1 DEF Contract!vars, Same, Facets
  <2>4. recovery' \in Int
    <3>1. recovery' = NS!Less(recovery)
      BY <1>1 DEF NS!Tick
    <3> QED BY <3>1 DEF NS!Less
  <2> QED BY <2>1, <2>2, <2>3, <2>4
<1>2. CASE \E c \in Conns : \E s : NodeSerialGoes(c, s)
  <2>1a. PICK c \in Conns : \E s :
          NodeSerialGoes(c, s)
    BY <1>2
  <2>1. PICK s :
          NodeSerialGoes(c, s)
    BY <2>1a
  <2>2. /\ conn' = [conn EXCEPT ![c] = s] /\ NodeSerialRecord(s) /\ StepOf(conn[c], s)
        /\ conn[c].fd = "none" => s.fd = "none" \/ NS!Unheld(c)
    BY <2>1 DEF NodeSerialGoes
  <2>3. DOMAIN conn' = Conns /\ conn'[c] = s /\ \A d \in Conns \ {c} : conn'[d] = conn[d]
    BY <2>2
  <2>4. Contract!Next
    BY <2>2, <2>3, Lifted DEF NS!Unheld, Unheld
  <2> QED BY <2>1, <2>2, <2>3, <2>4 DEF NodeSerialGoes
<1>3. ~NS!Tick => \E c \in Conns : \E s : NodeSerialGoes(c, s)
  <2> SUFFICES ASSUME ~NS!Tick PROVE \E c \in Conns : \E s : NodeSerialGoes(c, s)
    OBVIOUS
  <2>1. PICK c \in Conns : 
          \/ NS!Open(c) \/ NS!Recovered(c) \/ NS!NativeOpened(c)
          \/ NS!OpeningEvent(c) \/ NS!Drained(c) \/ NS!Abandon(c) \/ NS!Abandoned(c)
          \/ NS!Rested(c) \/ NS!LossError(c) \/ NS!RejectionError(c)
          \/ NS!PlainError(c) \/ NS!Arbitrated(c) \/ NS!NativeClosed(c)
          \/ (NS!BeginRead(c) /\ UNCHANGED recovery)
          \/ (NS!EndRead(c) /\ UNCHANGED recovery)
          \/ (NS!Collect(c) /\ UNCHANGED recovery)
          \/ (NS!PlatformTakes(c) /\ UNCHANGED recovery) \/ NS!Write(c)
          \/ NS!WriteCallback(c) \/ NS!Receive(c) \/ NS!Invalidate(c, "fault")
          \/ NS!Close(c) \/ NS!Released(c) \/ NS!Kept(c) \/ NS!ReleasedLate(c)
          \/ NS!CloseRested(c)
    BY DEF NS!SerialNext, NS!Channel, NS!Progress
  <2> QED BY <2>1, NodeSerialStep1, NodeSerialStep2, NodeSerialStep3, NodeSerialStep4
<1> QED BY <1>1, <1>2, <1>3

\* The inductive invariant of a connection, whichever adapter makes it.
LinkInv ==
    /\ DOMAIN conn = Conns
    /\ kind = "node-serial" => recovery \in Int /\ \A c \in Conns : NodeSerialRecord(conn[c])
    /\ kind = "browser-serial" => \A c \in Conns : BrowserSerialRecord(conn[c])
    /\ kind = "node-usb" => \A c \in Conns : NodeUsbRecord(conn[c])
    /\ kind = "browser-usb" => \A c \in Conns : BrowserUsbRecord(conn[c])

\* A connection that open() has not yet been called for.
Unused(r) == /\ r.place = "idle" /\ r.fd = "none" /\ ~r.refused /\ r.ended = NoEnding
             /\ r.closer = "none" /\ r.receipt = "none" /\ r.flight = "none"
             /\ r.reading = FALSE /\ r.heard = 0

\* Connections not yet opened are an initial state of the contract.
LEMMA UnusedStarts ==
    ASSUME \A c \in Conns : Unused(conn[c])
    PROVE  Contract!Init
<1>1. \A c \in Conns : /\ (conn[c].place = "live") = FALSE /\ (conn[c].fd # "none") = FALSE
                       /\ (conn[c].refused \/ conn[c].fd = "dying") = FALSE
                       /\ (conn[c].closer # "none") = FALSE /\ (conn[c].closer = "answered") = FALSE
                       /\ (conn[c].flight = "taken") = FALSE
  BY DEF Unused
<1> QED BY <1>1 DEF Contract!Init, Unused

\* A new Node serial connection, field by field.
LEMMA NodeSerialFresh == NS!With([early |-> FALSE, arbitration |-> NS!Off]) =
  [place |-> "idle", fd |-> "none", ended |-> NoEnding, closer |-> "none",
   hostClosing |-> FALSE, wake |-> NS!Off, receipt |-> "none", flight |-> "none",
   reading |-> FALSE, heard |-> 0, refused |-> FALSE, owed |-> 0, early |-> FALSE,
   arbitration |-> NS!Off]
<1> PICK own : own = [early |-> FALSE, arbitration |-> NS!Off]
  OBVIOUS
<1> PICK fresh : fresh = NS!Fresh
  OBVIOUS
<1> DEFINE Own == {"early", "arbitration"}
           Shared == {"place", "fd", "ended", "closer", "hostClosing", "wake", "receipt",
                      "flight", "reading", "heard", "refused", "owed"}
<1>1. DOMAIN own = Own /\ DOMAIN fresh = Shared
  BY DEF NS!Fresh
<1>2. NS!With(own) = [f \in Shared \cup Own |-> IF f \in Own THEN own[f] ELSE fresh[f]]
  BY <1>1 DEF NS!With
<1>3. /\ fresh.place = "idle" /\ fresh.fd = "none" /\ fresh.ended = NoEnding
      /\ fresh.closer = "none" /\ fresh.hostClosing = FALSE /\ fresh.wake = NS!Off
      /\ fresh.receipt = "none" /\ fresh.flight = "none" /\ fresh.reading = FALSE
      /\ fresh.heard = 0 /\ fresh.refused = FALSE /\ fresh.owed = 0
  BY DEF NS!Fresh
<1>4. /\ own.early = FALSE /\ own.arbitration = NS!Off
  OBVIOUS
<1> PICK r : r = NS!With(own)
  OBVIOUS
<1>5. /\ r.place = "idle" /\ r.fd = "none" /\ r.ended = NoEnding /\ r.closer = "none"
      /\ r.hostClosing = FALSE /\ r.wake = NS!Off /\ r.receipt = "none"
      /\ r.flight = "none" /\ r.reading = FALSE /\ r.heard = 0 /\ r.refused = FALSE
      /\ r.owed = 0 /\ r.early = FALSE /\ r.arbitration = NS!Off
  BY <1>2, <1>3, <1>4
<1>6. DOMAIN r = Shared \cup Own /\ r = [f \in DOMAIN r |-> r[f]]
  BY <1>2
<1> QED BY <1>5, <1>6

\* It satisfies the invariant and has not been opened.
LEMMA NodeSerialUnused ==
    ASSUME NEW w \in Int, NEW r,
           r = [place |-> "idle", fd |-> "none", ended |-> NoEnding, closer |-> "none",
                hostClosing |-> FALSE, wake |-> w, receipt |-> "none",
                flight |-> "none", reading |-> FALSE, heard |-> 0, refused |-> FALSE,
                owed |-> 0, early |-> FALSE, arbitration |-> w]
    PROVE  NodeSerialRecord(r) /\ Unused(r)
<1>1. NodeSerialType(r)
  BY DEF Receipts, NodeSerialType
<1>2. NodeSerialRecord(r)
  BY <1>1 DEF NodeSerialRecord
<1> QED BY <1>2 DEF Unused

\* The initial states of the Node serial adapter.
LEMMA NodeSerialStarts ==
    ASSUME NS!SerialInit
    PROVE  DOMAIN conn = Conns /\ recovery \in Int /\ \A c \in Conns : NodeSerialRecord(conn[c]) /\ Unused(conn[c])
<1>1. DOMAIN conn = Conns /\ recovery \in Int /\ \A c \in Conns : conn[c] = NS!With([early |-> FALSE, arbitration |-> NS!Off])
  BY DEF NS!SerialInit, NS!Off
<1>2. NS!Off \in Int
  BY DEF NS!Off
<1> PICK r : r = NS!With([early |-> FALSE, arbitration |-> NS!Off])
  OBVIOUS
<1>3. NodeSerialRecord(r) /\ Unused(r)
  BY <1>2, NodeSerialFresh, NodeSerialUnused
<1> QED BY <1>1, <1>3

\* A new browser serial connection, field by field.
LEMMA BrowserSerialFresh == BS!With([pump |-> FALSE, release |-> "none"]) =
  [place |-> "idle", fd |-> "none", ended |-> NoEnding, closer |-> "none",
   hostClosing |-> FALSE, wake |-> BS!Off, receipt |-> "none", flight |-> "none",
   reading |-> FALSE, heard |-> 0, refused |-> FALSE, owed |-> 0, pump |-> FALSE,
   release |-> "none"]
<1> PICK own : own = [pump |-> FALSE, release |-> "none"]
  OBVIOUS
<1> PICK fresh : fresh = BS!Fresh
  OBVIOUS
<1> DEFINE Own == {"pump", "release"}
           Shared == {"place", "fd", "ended", "closer", "hostClosing", "wake", "receipt",
                      "flight", "reading", "heard", "refused", "owed"}
<1>1. DOMAIN own = Own /\ DOMAIN fresh = Shared
  BY DEF BS!Fresh
<1>2. BS!With(own) = [f \in Shared \cup Own |-> IF f \in Own THEN own[f] ELSE fresh[f]]
  BY <1>1 DEF BS!With
<1>3. /\ fresh.place = "idle" /\ fresh.fd = "none" /\ fresh.ended = NoEnding
      /\ fresh.closer = "none" /\ fresh.hostClosing = FALSE /\ fresh.wake = BS!Off
      /\ fresh.receipt = "none" /\ fresh.flight = "none" /\ fresh.reading = FALSE
      /\ fresh.heard = 0 /\ fresh.refused = FALSE /\ fresh.owed = 0
  BY DEF BS!Fresh
<1>4. /\ own.pump = FALSE /\ own.release = "none"
  OBVIOUS
<1> PICK r : r = BS!With(own)
  OBVIOUS
<1>5. /\ r.place = "idle" /\ r.fd = "none" /\ r.ended = NoEnding /\ r.closer = "none"
      /\ r.hostClosing = FALSE /\ r.wake = BS!Off /\ r.receipt = "none"
      /\ r.flight = "none" /\ r.reading = FALSE /\ r.heard = 0 /\ r.refused = FALSE
      /\ r.owed = 0 /\ r.pump = FALSE /\ r.release = "none"
  BY <1>2, <1>3, <1>4
<1>6. DOMAIN r = Shared \cup Own /\ r = [f \in DOMAIN r |-> r[f]]
  BY <1>2
<1> QED BY <1>5, <1>6

\* It satisfies the invariant and has not been opened.
LEMMA BrowserSerialUnused ==
    ASSUME NEW w \in Int, NEW r,
           r = [place |-> "idle", fd |-> "none", ended |-> NoEnding, closer |-> "none",
                hostClosing |-> FALSE, wake |-> w, receipt |-> "none",
                flight |-> "none", reading |-> FALSE, heard |-> 0, refused |-> FALSE,
                owed |-> 0, pump |-> FALSE, release |-> "none"]
    PROVE  BrowserSerialRecord(r) /\ Unused(r)
<1>1. r \in [place : {"idle", "locking", "opening", "draining", "abandoning", "resting", "live", "failed"},
               fd : {"none", "open", "closing"}, ended : Endings \cup {NoEnding},
               closer : {"none", "releasing", "resting", "answered"},
               hostClosing : BOOLEAN, wake : Int, receipt : Receipts,
               flight : {"none", "sent", "taken"}, reading : BOOLEAN, heard : Nat,
               refused : BOOLEAN, owed : Int, pump : BOOLEAN,
               release : {"none", "waiting", "cancelling", "closing", "done", "failed"}]
  BY DEF Receipts
<1>2. BrowserSerialRecord(r)
  BY <1>1 DEF BrowserSerialRecord
<1> QED BY <1>2 DEF Unused

\* The initial states of the browser serial adapter.
LEMMA BrowserSerialStarts ==
    ASSUME BS!BrowserInit
    PROVE  DOMAIN conn = Conns /\ \A c \in Conns : BrowserSerialRecord(conn[c]) /\ Unused(conn[c])
<1>1. DOMAIN conn = Conns /\ \A c \in Conns : conn[c] = BS!With([pump |-> FALSE, release |-> "none"])
  BY DEF BS!BrowserInit
<1>2. BS!Off \in Int
  BY DEF BS!Off
<1> PICK r : r = BS!With([pump |-> FALSE, release |-> "none"])
  OBVIOUS
<1>3. BrowserSerialRecord(r) /\ Unused(r)
  BY <1>2, BrowserSerialFresh, BrowserSerialUnused
<1> QED BY <1>1, <1>3

\* A new Node USB connection, field by field.
LEMMA NodeUsbFresh == NU!With([input |-> FALSE, awaited |-> {}]) =
  [place |-> "idle", fd |-> "none", ended |-> NoEnding, closer |-> "none",
   hostClosing |-> FALSE, wake |-> NU!Off, receipt |-> "none", flight |-> "none",
   reading |-> FALSE, heard |-> 0, refused |-> FALSE, owed |-> 0, input |-> FALSE,
   awaited |-> {}]
<1> PICK own : own = [input |-> FALSE, awaited |-> {}]
  OBVIOUS
<1> PICK fresh : fresh = NU!Fresh
  OBVIOUS
<1> DEFINE Own == {"input", "awaited"}
           Shared == {"place", "fd", "ended", "closer", "hostClosing", "wake", "receipt",
                      "flight", "reading", "heard", "refused", "owed"}
<1>1. DOMAIN own = Own /\ DOMAIN fresh = Shared
  BY DEF NU!Fresh
<1>2. NU!With(own) = [f \in Shared \cup Own |-> IF f \in Own THEN own[f] ELSE fresh[f]]
  BY <1>1 DEF NU!With
<1>3. /\ fresh.place = "idle" /\ fresh.fd = "none" /\ fresh.ended = NoEnding
      /\ fresh.closer = "none" /\ fresh.hostClosing = FALSE /\ fresh.wake = NU!Off
      /\ fresh.receipt = "none" /\ fresh.flight = "none" /\ fresh.reading = FALSE
      /\ fresh.heard = 0 /\ fresh.refused = FALSE /\ fresh.owed = 0
  BY DEF NU!Fresh
<1>4. /\ own.input = FALSE /\ own.awaited = {}
  OBVIOUS
<1> PICK r : r = NU!With(own)
  OBVIOUS
<1>5. /\ r.place = "idle" /\ r.fd = "none" /\ r.ended = NoEnding /\ r.closer = "none"
      /\ r.hostClosing = FALSE /\ r.wake = NU!Off /\ r.receipt = "none"
      /\ r.flight = "none" /\ r.reading = FALSE /\ r.heard = 0 /\ r.refused = FALSE
      /\ r.owed = 0 /\ r.input = FALSE /\ r.awaited = {}
  BY <1>2, <1>3, <1>4
<1>6. DOMAIN r = Shared \cup Own /\ r = [f \in DOMAIN r |-> r[f]]
  BY <1>2
<1> QED BY <1>5, <1>6

\* It satisfies the invariant and has not been opened.
LEMMA NodeUsbUnused ==
    ASSUME NEW w \in Int, NEW r,
           r = [place |-> "idle", fd |-> "none", ended |-> NoEnding, closer |-> "none",
                hostClosing |-> FALSE, wake |-> w, receipt |-> "none",
                flight |-> "none", reading |-> FALSE, heard |-> 0, refused |-> FALSE,
                owed |-> 0, input |-> FALSE, awaited |-> {}]
    PROVE  NodeUsbRecord(r) /\ Unused(r)
<1>1. r \in [place : {"idle", "opening", "claimed", "live", "failed"}, fd : {"none", "open"},
               ended : Endings \cup {NoEnding}, closer : {"none", "cancelling", "releasing", "answered"},
               hostClosing : BOOLEAN, wake : Int, receipt : Receipts,
               flight : {"none", "sent", "taken"}, reading : {FALSE}, heard : Nat,
               refused : BOOLEAN, owed : Int, input : BOOLEAN, awaited : SUBSET {"in", "out"}]
  BY DEF Receipts
<1>2. NodeUsbRecord(r)
  BY <1>1 DEF NodeUsbRecord
<1> QED BY <1>2 DEF Unused

\* The initial states of the Node USB adapter.
LEMMA NodeUsbStarts ==
    ASSUME NU!UsbInit
    PROVE  DOMAIN conn = Conns /\ \A c \in Conns : NodeUsbRecord(conn[c]) /\ Unused(conn[c])
<1>1. DOMAIN conn = Conns /\ \A c \in Conns : conn[c] = NU!With([input |-> FALSE, awaited |-> {}])
  BY DEF NU!UsbInit
<1>2. NU!Off \in Int
  BY DEF NU!Off
<1> PICK r : r = NU!With([input |-> FALSE, awaited |-> {}])
  OBVIOUS
<1>3. NodeUsbRecord(r) /\ Unused(r)
  BY <1>2, NodeUsbFresh, NodeUsbUnused
<1> QED BY <1>1, <1>3

\* A new browser USB connection, field by field.
LEMMA BrowserUsbFresh == BU!With([input |-> 0]) =
  [place |-> "idle", fd |-> "none", ended |-> NoEnding, closer |-> "none",
   hostClosing |-> FALSE, wake |-> BU!Off, receipt |-> "none", flight |-> "none",
   reading |-> FALSE, heard |-> 0, refused |-> FALSE, owed |-> 0, input |-> 0]
<1> PICK own : own = [input |-> 0]
  OBVIOUS
<1> PICK fresh : fresh = BU!Fresh
  OBVIOUS
<1> DEFINE Own == {"input"}
           Shared == {"place", "fd", "ended", "closer", "hostClosing", "wake", "receipt",
                      "flight", "reading", "heard", "refused", "owed"}
<1>1. DOMAIN own = Own /\ DOMAIN fresh = Shared
  BY DEF BU!Fresh
<1>2. BU!With(own) = [f \in Shared \cup Own |-> IF f \in Own THEN own[f] ELSE fresh[f]]
  BY <1>1 DEF BU!With
<1>3. /\ fresh.place = "idle" /\ fresh.fd = "none" /\ fresh.ended = NoEnding
      /\ fresh.closer = "none" /\ fresh.hostClosing = FALSE /\ fresh.wake = BU!Off
      /\ fresh.receipt = "none" /\ fresh.flight = "none" /\ fresh.reading = FALSE
      /\ fresh.heard = 0 /\ fresh.refused = FALSE /\ fresh.owed = 0
  BY DEF BU!Fresh
<1>4. /\ own.input = 0
  OBVIOUS
<1> PICK r : r = BU!With(own)
  OBVIOUS
<1>5. /\ r.place = "idle" /\ r.fd = "none" /\ r.ended = NoEnding /\ r.closer = "none"
      /\ r.hostClosing = FALSE /\ r.wake = BU!Off /\ r.receipt = "none"
      /\ r.flight = "none" /\ r.reading = FALSE /\ r.heard = 0 /\ r.refused = FALSE
      /\ r.owed = 0 /\ r.input = 0
  BY <1>2, <1>3, <1>4
<1>6. DOMAIN r = Shared \cup Own /\ r = [f \in DOMAIN r |-> r[f]]
  BY <1>2
<1> QED BY <1>5, <1>6

\* It satisfies the invariant and has not been opened.
LEMMA BrowserUsbUnused ==
    ASSUME NEW w \in Int, NEW r,
           r = [place |-> "idle", fd |-> "none", ended |-> NoEnding, closer |-> "none",
                hostClosing |-> FALSE, wake |-> w, receipt |-> "none",
                flight |-> "none", reading |-> FALSE, heard |-> 0, refused |-> FALSE,
                owed |-> 0, input |-> 0]
    PROVE  BrowserUsbRecord(r) /\ Unused(r)
<1>1. r \in [place : {"idle", "opening", "claimed", "live", "failed"}, fd : {"none", "open"},
               ended : Endings \cup {NoEnding},
               closer : {"none", "releasing", "settling", "settlingFailed", "answered"},
               hostClosing : BOOLEAN, wake : Int, receipt : Receipts,
               flight : {"none", "sent", "taken"}, reading : {FALSE}, heard : Nat,
               refused : BOOLEAN, owed : Int, input : Int]
  BY DEF Receipts
<1>2. BrowserUsbRecord(r)
  BY <1>1 DEF BrowserUsbRecord
<1> QED BY <1>2 DEF Unused

\* The initial states of the browser USB adapter.
LEMMA BrowserUsbStarts ==
    ASSUME BU!UsbInit
    PROVE  DOMAIN conn = Conns /\ \A c \in Conns : BrowserUsbRecord(conn[c]) /\ Unused(conn[c])
<1>1. DOMAIN conn = Conns /\ \A c \in Conns : conn[c] = BU!With([input |-> 0])
  BY DEF BU!UsbInit
<1>2. BU!Off \in Int
  BY DEF BU!Off
<1> PICK r : r = BU!With([input |-> 0])
  OBVIOUS
<1>3. BrowserUsbRecord(r) /\ Unused(r)
  BY <1>2, BrowserUsbFresh, BrowserUsbUnused
<1> QED BY <1>1, <1>3

\* The initial states satisfy the invariant and the contract.
LEMMA LinkStarts == Init => LinkInv /\ Contract!Init
<1> SUFFICES ASSUME Init PROVE LinkInv /\ Contract!Init
  OBVIOUS
<1>1. LinkInv /\ \A c \in Conns : Unused(conn[c])
  BY NodeSerialStarts, BrowserSerialStarts, NodeUsbStarts, BrowserUsbStarts DEF Init,
     Starts, NoLink, LinkInv
<1> QED BY <1>1, UnusedStarts

\* Every step keeps the invariant and is a step of the contract, or none.
LEMMA LinkStep1 ==
    ASSUME LinkInv, [Next]_vars
    PROVE  LinkInv' /\ [Contract!Next]_Contract!vars
<1>1. CASE NodeSerialStep
  BY <1>1, NodeSerialLink DEF NodeSerialStep, LinkInv
<1>2. CASE BrowserSerialStep
  BY <1>2, BrowserSerialLink DEF BrowserSerialStep, LinkInv
<1>3. CASE NodeUsbStep
  BY <1>3, NodeUsbLink DEF NodeUsbStep, LinkInv
<1>4. CASE BrowserUsbStep
  BY <1>4, BrowserUsbLink DEF BrowserUsbStep, LinkInv
<1>5. CASE OpeningStep \/ LeasesStep \/ UNCHANGED vars
  <2>1. UNCHANGED <<conn, recovery, kind>>
    BY <1>5 DEF OpeningStep, LeasesStep, vars, link
  <2> QED BY <2>1 DEF LinkInv, Contract!vars
<1> QED BY <1>1, <1>2, <1>3, <1>4, <1>5 DEF Next, LinkStep

\* ImplementsConnection: whatever the adapter, its connections are used, written
\* to, read, ended and given back only as the ByteConnection contract lets them,
\* one native handle at a time.
THEOREM TransportsImplementConnection == Spec => ImplementsConnection
<1>1. Init => LinkInv /\ Contract!Init
  BY LinkStarts
<1>2. LinkInv /\ [Next]_vars => LinkInv' /\ [Contract!Next]_Contract!vars
  BY LinkStep1
<1> QED BY <1>1, <1>2, PTL DEF Spec, ImplementsConnection, Contract!Spec

-----------------------------------------------------------------------------
(* The silence a device is owed (SilenceKept).                             *)

\* What SilenceKept asks of the step of one connection, from r to s.
Imposed(r) == r.ended \in {"receive-overflow", "fault"} /\ ~r.hostClosing
Honours(r, s) ==
    /\ r.closer # "answered" /\ s.closer = "answered" => s.owed = 0
    /\ r.place = "resting" /\ s.place = "failed" => s.owed = 0
    /\ r.fd = "open" /\ s.fd = "closing" /\ Imposed(r) => r.owed = 0

\* The inductive invariant of a browser serial connection: silence is owed only
\* after an ending or for a port that open() gave up; the timer of the recovery
\* covers it; and an imposed ending has the port released only behind that timer.
BrowserCalm(r) ==
    /\ r.owed >= 0
    /\ r.place # "live" => r.ended = NoEnding
    /\ r.ended = NoEnding /\ r.place # "resting" => r.owed = 0
    /\ r.ended # NoEnding \/ r.place = "resting" => r.wake >= r.owed
    /\ r.hostClosing => r.closer # "none"
    /\ r.place = "live" /\ r.ended = NoEnding /\ ~r.hostClosing => r.release = "none"
    /\ Imposed(r) => r.release # "none" /\ (r.release = "cancelling" => r.owed = 0)

\* The same of a Node serial connection, when the path is owed m: the recovery
\* of the path covers what each of its connections is owed, and a wait that was
\* begun covers what its own connection is owed.
NodeCalm(m, r) ==
    /\ 0 <= r.owed /\ r.owed <= m
    /\ r.place # "live" => r.ended = NoEnding
    /\ r.ended = NoEnding /\ r.place # "resting" => r.owed = 0
    /\ r.place = "resting" \/ r.closer \in {"keeping", "resting"} => r.wake >= r.owed
    /\ r.closer \in {"releasingLate", "answered"} => r.owed = 0

\* And of all of them: as long as no open() came out of turn, all but one are done with.
NodeQuiet ==
    /\ recovery \in Nat
    /\ \A c \in Conns : NodeCalm(recovery, conn[c])
    /\ \A c, d \in Conns : c # d => DoneWith(conn[c]) \/ DoneWith(conn[d])

SilenceInv ==
    /\ LinkInv
    /\ kind = "browser-serial" => \A c \in Conns : BrowserCalm(conn[c])
    /\ kind = "node-serial" /\ ~overlap => NodeQuiet

\* The fields that the silence depends on.
Timing == {"place", "fd", "ended", "closer", "hostClosing", "wake", "owed", "release"}

\* One browser serial connection takes a step that keeps the silence.
BrowserHonours(c) == BrowserCalm(conn'[c]) /\ Honours(conn[c], conn'[c])

\* A step that touches none of them does.
LEMMA BrowserStill ==
    ASSUME NEW r, NEW s, BrowserCalm(r), \A f \in Timing \ {"fd"} : s[f] = r[f],
           r.fd = "open" => s.fd # "closing"
    PROVE  BrowserCalm(s) /\ Honours(r, s)
BY DEF BrowserCalm, Honours, Imposed, Timing

\* An ending starts the timer that covers the silence it owes.
LEMMA BrowserEnds ==
    ASSUME NEW r, BrowserSerialRecord(r), BrowserCalm(r), NEW e \in Endings, NEW s, s = BS!Finish(r, e)
    PROVE  /\ BrowserSerialRecord(s)
           /\ \A f \in Timing \ {"ended", "wake", "owed"} : s[f] = r[f]
           /\ s.owed >= 0 /\ (r.place = "live" => s.ended # NoEnding)
           /\ s.ended # NoEnding \/ s.place = "resting" => s.wake >= s.owed
           /\ s.ended = NoEnding => s = r
           /\ s = r \/ (s.ended = e /\ r.place = "live" /\ r.ended = NoEnding)
<1>0. BrowserSerialRecord(s)
  BY BrowserSerialFinished
<1>1. CASE BS!Usable(r)
  <2>1. PICK n : n = BS!SilenceOf(e)
    OBVIOUS
  <2>2. n \in Nat
    BY <2>1, SilenceAssumption DEF BS!SilenceOf
  <2>3. r.owed = 0 /\ r.place = "live" /\ r.ended = NoEnding
    BY <1>1 DEF BrowserCalm, BS!Usable
  <2>4. BS!Larger(r.owed, n) = n
    BY <2>2, <2>3 DEF BS!Larger
  <2>5. s = [[r EXCEPT !.ended = e, !.heard = 0, !.reading = FALSE, !.owed = n] EXCEPT !.wake = n]
    BY <1>1, <2>1, <2>4 DEF BS!Finish, BS!Finished
  <2>6. /\ \A f \in Timing \ {"ended", "wake", "owed"} : s[f] = r[f]
        /\ s.ended = e /\ s.owed = n /\ s.wake = n
    BY <2>5 DEF BrowserSerialRecord, Timing
  <2>7. s.ended # NoEnding /\ s.owed >= 0 /\ s.wake >= s.owed
    BY <2>2, <2>6, EndingAssumption
  <2> QED BY <1>0, <2>3, <2>6, <2>7
<1>2. CASE ~BS!Usable(r)
  <2>1. s = r
    BY <1>2 DEF BS!Finish
  <2> QED BY <1>0, <1>2, <2>1 DEF BrowserCalm, BS!Usable
<1> QED BY <1>1, <1>2

\* open() of a browser serial port, and its giving back.
LEMMA BrowserSilence1 ==
    ASSUME NEW c \in Conns, c \in DOMAIN conn, BrowserSerialRecord(conn[c]), BrowserCalm(conn[c])
    PROVE  /\ BS!Open(c) => BrowserHonours(c)
           /\ BS!Locked(c) => BrowserHonours(c)
           /\ BS!NativeOpened(c) => BrowserHonours(c)
           /\ BS!Drained(c) => BrowserHonours(c)
           /\ BS!DrainFails(c) => BrowserHonours(c)
           /\ BS!Abandoned(c) => BrowserHonours(c)
           /\ BS!Rested(c) => BrowserHonours(c)
           /\ BS!RecoveryElapsed(c) => BrowserHonours(c)
           /\ BS!Cancelled(c) => BrowserHonours(c)
           /\ BS!PortClosed(c) => BrowserHonours(c)
<1>1. PICK r, s : r = conn[c] /\ s = conn'[c]
  OBVIOUS
<1>2. BrowserSerialRecord(r) /\ BrowserCalm(r)
  BY <1>1
<1> SUFFICES /\ BS!Open(c) => BrowserCalm(s) /\ Honours(r, s)
             /\ BS!Locked(c) => BrowserCalm(s) /\ Honours(r, s)
             /\ BS!NativeOpened(c) => BrowserCalm(s) /\ Honours(r, s)
             /\ BS!Drained(c) => BrowserCalm(s) /\ Honours(r, s)
             /\ BS!DrainFails(c) => BrowserCalm(s) /\ Honours(r, s)
             /\ BS!Abandoned(c) => BrowserCalm(s) /\ Honours(r, s)
             /\ BS!Rested(c) => BrowserCalm(s) /\ Honours(r, s)
             /\ BS!RecoveryElapsed(c) => BrowserCalm(s) /\ Honours(r, s)
             /\ BS!Cancelled(c) => BrowserCalm(s) /\ Honours(r, s)
             /\ BS!PortClosed(c) => BrowserCalm(s) /\ Honours(r, s)
  BY <1>1 DEF BrowserHonours
<1>3. ASSUME BS!Open(c) \/ BS!Locked(c) PROVE BrowserCalm(s) /\ Honours(r, s)
  <2>1. PICK place \in {"locking", "opening", "failed"} : s = [r EXCEPT !.place = place]
    BY <1>1, <1>3 DEF BS!Open, BS!Locked, BS!Set
  <2>2. /\ \A f \in Timing \ {"place"} : s[f] = r[f]
        /\ s.place \notin {"live", "resting"} /\ r.place \in {"idle", "locking"}
    BY <1>1, <1>2, <1>3, <2>1 DEF BS!Open, BS!Locked, BrowserSerialRecord, Timing
  <2> QED BY <1>2, <2>2 DEF BrowserCalm, Honours, Imposed, Timing
<1>4. ASSUME BS!NativeOpened(c) PROVE BrowserCalm(s) /\ Honours(r, s)
  <2>1. PICK place \in {"draining", "failed"}, fd \in {r.fd, "open"} : s = [r EXCEPT !.place = place, !.fd = fd]
    <3>1. CASE conn' = [conn EXCEPT ![c] = [conn[c] EXCEPT !.place = "draining", !.fd = "open"]]
      BY <1>1, <3>1
    <3>2. CASE conn' = [conn EXCEPT ![c] = [conn[c] EXCEPT !.place = "failed"]]
      <4>1. s = [r EXCEPT !.place = "failed", !.fd = r.fd]
        BY <1>1, <1>2, <3>2 DEF BrowserSerialRecord
      <4> QED BY <4>1
    <3> QED BY <1>4, <3>1, <3>2 DEF BS!NativeOpened, BS!Set
  <2>2. /\ \A f \in Timing \ {"place", "fd"} : s[f] = r[f]
        /\ s.place \notin {"live", "resting"} /\ r.place = "opening"
        /\ r.fd = "open" => s.fd = "open"
    <3>1. r.place = "opening"
      BY <1>1, <1>4 DEF BS!NativeOpened
    <3> QED BY <1>2, <2>1, <3>1 DEF BrowserSerialRecord, Timing
  <2> QED BY <1>2, <2>2 DEF BrowserCalm, Honours, Imposed, Timing
<1>5. ASSUME BS!Drained(c) PROVE BrowserCalm(s) /\ Honours(r, s)
  <2>1. s = [r EXCEPT !.place = "live", !.pump = TRUE]
    BY <1>1, <1>5 DEF BS!Drained, BS!Set
  <2>2. /\ \A f \in Timing \ {"place"} : s[f] = r[f]
        /\ s.place = "live" /\ r.place = "draining" /\ r.release = "none"
    BY <1>1, <1>2, <1>5, <2>1 DEF BS!Drained, BrowserSerialRecord, Timing
  <2> QED BY <1>2, <2>2, EndingAssumption DEF BrowserCalm, Honours, Imposed, Timing, Endings
<1>6. ASSUME BS!DrainFails(c) PROVE BrowserCalm(s) /\ Honours(r, s)
  <2>1. s = [r EXCEPT !.place = "abandoning", !.fd = "closing"]
    BY <1>1, <1>6 DEF BS!DrainFails, BS!Set
  <2>2. /\ \A f \in Timing \ {"place", "fd"} : s[f] = r[f]
        /\ s.place = "abandoning" /\ r.place = "draining"
    BY <1>1, <1>2, <1>6, <2>1 DEF BS!DrainFails, BrowserSerialRecord, Timing
  <2> QED BY <1>2, <2>2, EndingAssumption DEF BrowserCalm, Honours, Imposed, Timing, Endings
<1>7. ASSUME BS!Abandoned(c) PROVE BrowserCalm(s) /\ Honours(r, s)
  <2>1. PICK fd \in {"none", "open"} :
          s = [r EXCEPT !.fd = fd, !.refused = (fd = "open"), !.owed = Abnormal, !.place = "resting", !.wake = Abnormal]
    BY <1>1, <1>7 DEF BS!Abandoned, BS!Set
  <2>2. /\ \A f \in Timing \ {"place", "fd", "owed", "wake"} : s[f] = r[f]
        /\ s.place = "resting" /\ r.place = "abandoning" /\ s.owed = Abnormal /\ s.wake = Abnormal
        /\ s.fd \in {"none", "open"}
    <3>1. r.place = "abandoning"
      BY <1>1, <1>7 DEF BS!Abandoned
    <3>2. /\ \A f \in Timing \ {"place", "fd", "owed", "wake"} : s[f] = r[f]
          /\ s.place = "resting" /\ s.owed = Abnormal /\ s.wake = Abnormal /\ s.fd = fd
      BY <1>2, <2>1 DEF BrowserSerialRecord, Timing
    <3> QED BY <3>1, <3>2
  <2>3. Abnormal \in Nat
    BY SilenceAssumption
  <2> QED BY <1>2, <2>2, <2>3, EndingAssumption DEF BrowserCalm, Honours, Imposed, Timing, Endings
<1>8. ASSUME BS!Rested(c) PROVE BrowserCalm(s) /\ Honours(r, s)
  <2>1. s = [r EXCEPT !.place = "failed"] /\ r.wake = 0
    BY <1>1, <1>8 DEF BS!Rested, BS!Set
  <2>2. /\ \A f \in Timing \ {"place"} : s[f] = r[f]
        /\ s.place = "failed" /\ r.place = "resting"
        /\ r.owed \in Int
    BY <1>1, <1>2, <1>8, <2>1 DEF BS!Rested, BrowserSerialRecord, Timing
  <2>3. r.owed = 0
    BY <1>2, <2>1, <2>2 DEF BrowserCalm
  <2> QED BY <1>2, <2>1, <2>2, <2>3, EndingAssumption DEF BrowserCalm, Honours, Imposed, Timing, Endings
<1>9. ASSUME BS!RecoveryElapsed(c) PROVE BrowserCalm(s) /\ Honours(r, s)
  <2>1. s = [r EXCEPT !.release = "cancelling"] /\ r.wake = 0
    BY <1>1, <1>9 DEF BS!RecoveryElapsed, BS!Set
  <2>2. /\ \A f \in Timing \ {"release"} : s[f] = r[f]
        /\ s.release = "cancelling" /\ r.release = "waiting" /\ r.owed \in Int
    BY <1>1, <1>2, <1>9, <2>1 DEF BS!RecoveryElapsed, BrowserSerialRecord, Timing
  <2> QED BY <1>2, <2>1, <2>2, EndingAssumption DEF BrowserCalm, Honours, Imposed, Timing, Endings
<1>10. ASSUME BS!Cancelled(c) PROVE BrowserCalm(s) /\ Honours(r, s)
  <2>1. \/ s = [r EXCEPT !.pump = FALSE, !.release = "done"]
        \/ s = [r EXCEPT !.pump = FALSE, !.release = "closing", !.fd = "closing"]
    BY <1>1, <1>10 DEF BS!Cancelled, BS!Set
  <2>2. /\ \A f \in Timing \ {"fd", "release"} : s[f] = r[f]
        /\ s.release \in {"done", "closing"} /\ r.release = "cancelling"
    BY <1>1, <1>2, <1>10, <2>1 DEF BS!Cancelled, BrowserSerialRecord, Timing
  <2> QED BY <1>2, <2>2 DEF BrowserCalm, Honours, Imposed, Timing
<1>11. ASSUME BS!PortClosed(c) PROVE BrowserCalm(s) /\ Honours(r, s)
  <2>1. PICK done \in BOOLEAN :
          s = [r EXCEPT !.release = IF done THEN "done" ELSE "failed",
                        !.refused = ~done, !.fd = IF done THEN "none" ELSE "open"]
    BY <1>1, <1>11 DEF BS!PortClosed, BS!Set
  <2>2. /\ \A f \in Timing \ {"fd", "release"} : s[f] = r[f]
        /\ s.release \in {"done", "failed"} /\ r.release = "closing" /\ s.fd # "closing"
    BY <1>1, <1>2, <1>11, <2>1 DEF BS!PortClosed, BrowserSerialRecord, Timing
  <2> QED BY <1>2, <2>2 DEF BrowserCalm, Honours, Imposed, Timing
<1> QED BY <1>3, <1>4, <1>5, <1>6, <1>7, <1>8, <1>9, <1>10, <1>11

\* An ending that the platform or the ingress makes, and the release that goes with it.
LEMMA BrowserImposes ==
    ASSUME NEW r, BrowserSerialRecord(r), BrowserCalm(r), NEW e \in Endings, NEW q, q = BS!Finish(r, e),
           NEW s, \/ s = q /\ (e \notin {"receive-overflow", "fault"} \/ ~(r.place = "live" /\ r.ended = NoEnding))
                  \/ s = BS!Release(q) /\ e \notin {"receive-overflow", "fault"} /\ r.place = "live" /\ r.ended = NoEnding
                  \/ s = BS!ReleaseAfterRecovery(q) /\ r.place = "live" /\ r.ended = NoEnding
    PROVE  BrowserCalm(s) /\ s.fd = r.fd /\ s.closer = r.closer /\ s.place = r.place
<1>1. /\ BrowserSerialRecord(q)
      /\ \A f \in Timing \ {"ended", "wake", "owed"} : q[f] = r[f]
      /\ q.owed >= 0 /\ (r.place = "live" => q.ended # NoEnding)
      /\ q.ended # NoEnding \/ q.place = "resting" => q.wake >= q.owed
      /\ q.ended = NoEnding => q = r
      /\ q = r \/ (q.ended = e /\ r.place = "live" /\ r.ended = NoEnding)
  BY BrowserEnds
<1>2. /\ \A f \in Timing \ {"release"} : s[f] = q[f]
      /\ s.release = q.release \/ q.release = "none"
      /\ q.release = "none" /\ s.release # "waiting" =>
           e \notin {"receive-overflow", "fault"} \/ ~(r.place = "live" /\ r.ended = NoEnding)
  <2>1. CASE s = q /\ (e \notin {"receive-overflow", "fault"} \/ ~(r.place = "live" /\ r.ended = NoEnding))
    BY <2>1
  <2>2. CASE s = BS!Release(q) /\ e \notin {"receive-overflow", "fault"}
    <3>1. CASE q.release = "none"
      <4>1. s = [q EXCEPT !.release = "cancelling"]
        BY <2>2, <3>1 DEF BS!Release
      <4>2. s.release = "cancelling" /\ \A f \in Timing \ {"release"} : s[f] = q[f]
        BY <1>1, <4>1 DEF BrowserSerialRecord, Timing
      <4> QED BY <2>2, <3>1, <4>2
    <3>2. CASE q.release # "none"
      BY <2>2, <3>2 DEF BS!Release
    <3> QED BY <3>1, <3>2
  <2>3. CASE s = BS!ReleaseAfterRecovery(q)
    <3>1. CASE q.release = "none"
      <4>1. s = [q EXCEPT !.release = "waiting"]
        BY <2>3, <3>1 DEF BS!ReleaseAfterRecovery
      <4>2. s.release = "waiting" /\ \A f \in Timing \ {"release"} : s[f] = q[f]
        BY <1>1, <4>1 DEF BrowserSerialRecord, Timing
      <4> QED BY <3>1, <4>2
    <3>2. CASE q.release # "none"
      BY <2>3, <3>2 DEF BS!ReleaseAfterRecovery
    <3> QED BY <3>1, <3>2
  <2> QED BY <2>1, <2>2, <2>3
<1>3. /\ s.fd = r.fd /\ s.closer = r.closer /\ s.place = r.place /\ s.hostClosing = r.hostClosing
      /\ s.ended = q.ended /\ s.owed = q.owed /\ s.wake = q.wake
  BY <1>1, <1>2 DEF Timing
<1>4. CASE q = r
  <2>1. s.release = r.release \/ (r.release = "none" /\ s.release = "waiting") \/ ~Imposed(r)
    BY <1>2, <1>4 DEF BrowserCalm
  <2> QED BY <1>1, <1>2, <1>3, <1>4, <2>1 DEF BrowserCalm, Imposed
<1>5. CASE q # r
  <2>1. s.ended = e /\ s.ended # NoEnding /\ s.place = "live" /\ (s.hostClosing => s.closer # "none")
    BY <1>1, <1>3, <1>5, EndingAssumption DEF BrowserCalm
  <2>2. s.owed >= 0 /\ s.wake >= s.owed
    BY <1>1, <1>3, <2>1
  <2>3. Imposed(s) => s.release # "none" /\ s.release # "cancelling"
    <3>1. r.place = "live" /\ r.ended = NoEnding /\ q.release = r.release
      BY <1>1, <1>5 DEF Timing
    <3>2. Imposed(s) => r.release = "none" /\ e \in {"receive-overflow", "fault"}
      BY <1>3, <2>1, <3>1 DEF BrowserCalm, Imposed
    <3> QED BY <1>2, <3>1, <3>2
  <2> QED BY <1>3, <2>1, <2>2, <2>3 DEF BrowserCalm
<1> QED BY <1>4, <1>5

\* A step that answers no close(), gives up no open() and begins no release honours it.
LEMMA HonoursSame ==
    ASSUME NEW r, NEW s, s.closer = r.closer, s.place = r.place, s.fd = r.fd \/ s.fd # "closing"
    PROVE  Honours(r, s)
BY DEF Honours

\* The error of a stream.
LEMMA BrowserFails ==
    ASSUME NEW r, BrowserSerialRecord(r), BrowserCalm(r), NEW s, s = BS!Failed(r)
    PROVE  BrowserCalm(s) /\ s.fd = r.fd /\ s.closer = r.closer /\ s.place = r.place
<1>1. CASE s = r
  BY <1>1
<1>2. CASE s # r
  <2>1. PICK q : q = BS!Finish(r, "device-lost")
    OBVIOUS
  <2>2. BS!Usable(r) /\ s = BS!Release(q)
    BY <1>2, <2>1 DEF BS!Failed
  <2>3. "device-lost" \in Endings /\ "device-lost" \notin {"receive-overflow", "fault"}
    BY DEF Endings
  <2> QED BY <2>1, <2>2, <2>3, BrowserImposes DEF BS!Usable
<1> QED BY <1>1, <1>2

\* The endings and the writes of a browser serial connection.
LEMMA BrowserSilence2 ==
    ASSUME NEW c \in Conns, c \in DOMAIN conn, BrowserSerialRecord(conn[c]), BrowserCalm(conn[c])
    PROVE  /\ BS!DisconnectEvent(c) => BrowserHonours(c)
           /\ BS!StreamEnds(c) => BrowserHonours(c)
           /\ BS!StreamFails(c) => BrowserHonours(c)
           /\ BS!WriteSettles(c) => BrowserHonours(c)
           /\ BS!Receive(c) => BrowserHonours(c)
           /\ BS!Invalidate(c, "fault") => BrowserHonours(c)
<1>1. ASSUME BS!DisconnectEvent(c) PROVE BrowserHonours(c)
  <2>1a. PICK fd \in {conn[c].fd, "none"} : \E r, s :
          /\ r = [conn[c] EXCEPT !.fd = fd] /\ s = BS!Finish(r, "device-lost") /\ BS!Set(c, s)
          /\ fd = "none" => conn[c].fd \in {"none", "open"}
    BY <1>1 DEF BS!DisconnectEvent
  <2>1. PICK r, s :
          /\ r = [conn[c] EXCEPT !.fd = fd] /\ s = BS!Finish(r, "device-lost") /\ BS!Set(c, s)
          /\ fd = "none" => conn[c].fd \in {"none", "open"}
    BY <2>1a
  <2>2. /\ BrowserSerialRecord(r) /\ r.fd = fd
        /\ \A f \in Timing \ {"fd"} : r[f] = conn[c][f]
    BY <1>1, <2>1 DEF BS!DisconnectEvent, BS!Usable, BrowserSerialRecord, Timing
  <2>3. BrowserCalm(r) /\ (r.fd = conn[c].fd \/ r.fd # "closing")
    BY <2>1, <2>2 DEF BrowserCalm, Imposed, Timing
  <2>4. BrowserCalm(s) /\ s.fd = r.fd /\ s.closer = r.closer /\ s.place = r.place
    <3>1. CASE s = BS!Finish(r, "device-lost")
      <4>1. "device-lost" \in Endings /\ "device-lost" \notin {"receive-overflow", "fault"}
        BY DEF Endings
      <4>2. PICK q : q = BS!Finish(r, "device-lost")
        OBVIOUS
      <4>3. s = q
        BY <3>1, <4>2
      <4> QED BY <2>2, <2>3, <4>1, <4>2, <4>3, BrowserImposes
    <3>2. CASE s = r
      BY <2>3, <3>2
    <3> QED BY <2>1, <3>1, <3>2
  <2>5. Honours(conn[c], s)
    BY <2>2, <2>3, <2>4, HonoursSame DEF Timing
  <2> QED BY <2>1, <2>4, <2>5 DEF BS!Set, BrowserHonours
<1>2. ASSUME BS!StreamEnds(c) PROVE BrowserHonours(c)
  <2>1. PICK r, s : /\ r = [conn[c] EXCEPT !.pump = FALSE]
                    /\ s = r \/ s = BS!Finish(r, "closed-by-device")
                    /\ BS!Set(c, s)
    BY <1>2 DEF BS!StreamEnds
  <2>2. BrowserSerialRecord(r) /\ \A f \in Timing : r[f] = conn[c][f]
    BY <2>1 DEF BrowserSerialRecord, Timing
  <2>3. BrowserCalm(r)
    BY <2>2 DEF BrowserCalm, Imposed, Timing
  <2>4. BrowserCalm(s) /\ s.fd = r.fd /\ s.closer = r.closer /\ s.place = r.place
    <3>1. CASE s = BS!Finish(r, "closed-by-device")
      <4>1. "closed-by-device" \in Endings /\ "closed-by-device" \notin {"receive-overflow", "fault"}
        BY DEF Endings
      <4>2. PICK q : q = BS!Finish(r, "closed-by-device")
        OBVIOUS
      <4>3. s = q
        BY <3>1, <4>2
      <4> QED BY <2>2, <2>3, <4>1, <4>2, <4>3, BrowserImposes
    <3>2. CASE s = r
      BY <2>3, <3>2
    <3> QED BY <2>1, <3>1, <3>2
  <2>5. Honours(conn[c], s)
    BY <2>2, <2>4, HonoursSame DEF Timing
  <2> QED BY <2>1, <2>4, <2>5 DEF BS!Set, BrowserHonours
<1>3. ASSUME BS!StreamFails(c) PROVE BrowserHonours(c)
  <2>1. PICK r, s : r = [conn[c] EXCEPT !.pump = FALSE] /\ s = BS!Failed(r) /\ BS!Set(c, s)
    BY <1>3 DEF BS!StreamFails
  <2>2. BrowserSerialRecord(r) /\ \A f \in Timing : r[f] = conn[c][f]
    BY <2>1 DEF BrowserSerialRecord, Timing
  <2>3. BrowserCalm(r)
    BY <2>2 DEF BrowserCalm, Imposed, Timing
  <2>4. BrowserCalm(s) /\ s.fd = r.fd /\ s.closer = r.closer /\ s.place = r.place
    BY <2>1, <2>2, <2>3, BrowserFails
  <2>5. Honours(conn[c], s)
    BY <2>2, <2>4, HonoursSame DEF Timing
  <2> QED BY <2>1, <2>4, <2>5 DEF BS!Set, BrowserHonours
<1>4. ASSUME BS!WriteSettles(c) PROVE BrowserHonours(c)
  <2>1a. PICK outcome \in {"accepted-by-platform", "may-be-partial"} : \E r, s :
          /\ r = [conn[c] EXCEPT !.flight = "none", !.receipt = outcome]
          /\ s = r \/ s = BS!Failed(r)
          /\ BS!Set(c, s)
    BY <1>4 DEF BS!WriteSettles
  <2>1. PICK r, s :
          /\ r = [conn[c] EXCEPT !.flight = "none", !.receipt = outcome]
          /\ s = r \/ s = BS!Failed(r)
          /\ BS!Set(c, s)
    BY <2>1a
  <2>2. BrowserSerialRecord(r) /\ \A f \in Timing : r[f] = conn[c][f]
    <3>1. conn[c].receipt = "pending" /\ outcome \in Receipts
      BY <1>4 DEF BS!WriteSettles, BrowserSerialRecord, Receipts
    <3>2. BrowserSerialRecord(r)
      BY <2>1, <3>1 DEF BrowserSerialRecord
    <3>3. \A f \in Timing : r[f] = conn[c][f]
      BY <2>1 DEF BrowserSerialRecord, Timing
    <3> QED BY <3>2, <3>3
  <2>3. BrowserCalm(r)
    BY <2>2 DEF BrowserCalm, Imposed, Timing
  <2>4. BrowserCalm(s) /\ s.fd = r.fd /\ s.closer = r.closer /\ s.place = r.place
    BY <2>1, <2>2, <2>3, BrowserFails
  <2>5. Honours(conn[c], s)
    BY <2>2, <2>4, HonoursSame DEF Timing
  <2> QED BY <2>1, <2>4, <2>5 DEF BS!Set, BrowserHonours
<1>5. ASSUME NEW e \in {"fault", "receive-overflow"}, BS!Invalidate(c, e) PROVE BrowserHonours(c)
  <2>1. PICK q, s : q = BS!Finish(conn[c], e) /\ s = BS!ReleaseAfterRecovery(q) /\ BS!Set(c, s)
    BY <1>5 DEF BS!Invalidate
  <2>2. e \in Endings /\ conn[c].place = "live" /\ conn[c].ended = NoEnding
    BY <1>5 DEF BS!Invalidate, BS!Usable, Endings
  <2>3. BrowserCalm(s) /\ s.fd = conn[c].fd /\ s.closer = conn[c].closer /\ s.place = conn[c].place
    BY <2>1, <2>2, BrowserImposes
  <2>4. Honours(conn[c], s)
    BY <2>3, HonoursSame
  <2> QED BY <2>1, <2>3, <2>4 DEF BS!Set, BrowserHonours
<1>6. ASSUME BS!Receive(c) PROVE BrowserHonours(c)
  <2>1. CASE BS!Invalidate(c, "receive-overflow")
    BY <1>5, <2>1
  <2>2. CASE ~BS!Invalidate(c, "receive-overflow")
    <3>1. PICK s : s = [conn[c] EXCEPT !.heard = @ + 1] /\ BS!Set(c, s)
      BY <1>6, <2>2 DEF BS!Receive
    <3>2. \A f \in Timing : s[f] = conn[c][f]
      BY <3>1 DEF BrowserSerialRecord, Timing
    <3>3. BrowserCalm(s) /\ Honours(conn[c], s)
      BY <3>2, BrowserStill DEF Timing
    <3> QED BY <3>1, <3>3 DEF BS!Set, BrowserHonours
  <2> QED BY <2>1, <2>2
<1>7. ASSUME BS!Invalidate(c, "fault") PROVE BrowserHonours(c)
  BY <1>5, <1>7
<1> QED BY <1>1, <1>2, <1>3, <1>4, <1>6, <1>7

\* What only its channel sees changes nothing that the silence depends on.
LEMMA BrowserSilence3 ==
    ASSUME NEW c \in Conns, c \in DOMAIN conn, BrowserSerialRecord(conn[c]), BrowserCalm(conn[c])
    PROVE  /\ BS!Write(c) => BrowserHonours(c)
           /\ BS!BeginRead(c) => BrowserHonours(c)
           /\ BS!EndRead(c) => BrowserHonours(c)
           /\ BS!Collect(c) => BrowserHonours(c)
           /\ BS!PlatformTakes(c) => BrowserHonours(c)
<1>1. ASSUME BS!Write(c) PROVE \A f \in Timing : conn'[c][f] = conn[c][f]
  <2>1. conn'[c] = [conn[c] EXCEPT !.receipt = "pending", !.flight = "sent"]
    BY <1>1 DEF BS!Write, BS!Set
  <2> QED BY <2>1 DEF BrowserSerialRecord, Timing
<1>2. ASSUME BS!BeginRead(c) PROVE \A f \in Timing : conn'[c][f] = conn[c][f]
  <2>1. conn'[c] = [conn[c] EXCEPT !.reading = TRUE]
    BY <1>2 DEF BS!BeginRead, BS!Set
  <2> QED BY <2>1 DEF BrowserSerialRecord, Timing
<1>3. ASSUME BS!EndRead(c) PROVE \A f \in Timing : conn'[c][f] = conn[c][f]
  <2>1. CASE conn'[c] = [conn[c] EXCEPT !.reading = FALSE, !.heard = @ - 1]
    BY <2>1 DEF BrowserSerialRecord, Timing
  <2>2. CASE conn'[c] = [conn[c] EXCEPT !.reading = FALSE]
    BY <2>2 DEF BrowserSerialRecord, Timing
  <2> QED BY <1>3, <2>1, <2>2 DEF BS!EndRead, BS!Set
<1>4. ASSUME BS!Collect(c) PROVE \A f \in Timing : conn'[c][f] = conn[c][f]
  <2>1. conn'[c] = [conn[c] EXCEPT !.receipt = "none"]
    BY <1>4 DEF BS!Collect, BS!Set
  <2> QED BY <2>1 DEF BrowserSerialRecord, Timing
<1>5. ASSUME BS!PlatformTakes(c) PROVE \A f \in Timing : conn'[c][f] = conn[c][f]
  <2>1. conn'[c] = [conn[c] EXCEPT !.flight = "taken"]
    BY <1>5 DEF BS!PlatformTakes, BS!Set
  <2> QED BY <2>1 DEF BrowserSerialRecord, Timing
<1>6. ASSUME \A f \in Timing : conn'[c][f] = conn[c][f] PROVE BrowserHonours(c)
  <2>1. PICK s : s = conn'[c]
    OBVIOUS
  <2>2. /\ \A f \in Timing \ {"fd"} : s[f] = conn[c][f]
        /\ s.fd = conn[c].fd
    BY <1>6, <2>1 DEF Timing
  <2>3. BrowserCalm(s) /\ Honours(conn[c], s)
    BY <2>2, BrowserStill
  <2> QED BY <2>1, <2>3 DEF BrowserHonours
<1> QED BY <1>1, <1>2, <1>3, <1>4, <1>5, <1>6

\* Its close().
LEMMA BrowserSilence4 ==
    ASSUME NEW c \in Conns, c \in DOMAIN conn, BrowserSerialRecord(conn[c]), BrowserCalm(conn[c])
    PROVE  /\ BS!Close(c) => BrowserHonours(c)
           /\ BS!CloseReleased(c) => BrowserHonours(c)
           /\ BS!CloseRested(c) => BrowserHonours(c)
<1>1. ASSUME BS!Close(c) PROVE BrowserHonours(c)
  <2>1. PICK r, s : /\ r = [conn[c] EXCEPT !.closer = "releasing", !.hostClosing = BS!Usable(conn[c])]
                    /\ s = BS!Release(r) /\ BS!Set(c, s)
    BY <1>1 DEF BS!Close
  <2>2. /\ conn[c].closer = "none" /\ conn[c].place = "live" /\ conn[c].hostClosing = FALSE
        /\ BS!Usable(conn[c]) \in BOOLEAN
    BY <1>1 DEF BS!Close, BS!Usable, BrowserCalm, BrowserSerialRecord
  <2>3. /\ \A f \in Timing \ {"closer", "hostClosing"} : r[f] = conn[c][f]
        /\ r.closer = "releasing" /\ r.hostClosing = BS!Usable(conn[c])
    BY <2>1 DEF BrowserSerialRecord, Timing
  <2>7. BrowserSerialRecord(r)
    BY <2>1, <2>2 DEF BrowserSerialRecord
  <2>4. /\ \A f \in Timing \ {"release"} : s[f] = r[f]
        /\ IF r.release = "none" THEN s.release = "cancelling" ELSE s.release = r.release
    <3>1. CASE r.release = "none"
      <4>1. s = [r EXCEPT !.release = "cancelling"]
        BY <2>1, <3>1 DEF BS!Release
      <4> QED BY <2>7, <3>1, <4>1 DEF BrowserSerialRecord, Timing
    <3>2. CASE r.release # "none"
      BY <2>1, <3>2 DEF BS!Release
    <3> QED BY <3>1, <3>2
  <2>5. BrowserCalm(s)
    BY <2>2, <2>3, <2>4 DEF BrowserCalm, Imposed, BS!Usable, Timing
  <2>6. Honours(conn[c], s)
    BY <2>2, <2>3, <2>4 DEF Honours, Timing
  <2> QED BY <2>1, <2>5, <2>6 DEF BS!Set, BrowserHonours
<1>2. ASSUME BS!CloseReleased(c) PROVE BrowserHonours(c)
  <2>1a. PICK e \in Endings : \E q, s :
          /\ q = BS!Finish(conn[c], e) /\ s = [q EXCEPT !.closer = "resting"]
          /\ BS!Set(c, s)
    <3>1. "closed-by-host" \in Endings /\ "fault" \in Endings
      BY DEF Endings
    <3> QED BY <1>2, <3>1 DEF BS!CloseReleased
  <2>1. PICK q, s :
          /\ q = BS!Finish(conn[c], e) /\ s = [q EXCEPT !.closer = "resting"]
          /\ BS!Set(c, s)
    BY <2>1a
  <2>2. conn[c].closer = "releasing" /\ conn[c].release \in {"done", "failed"} /\ conn[c].place = "live"
    BY <1>2 DEF BS!CloseReleased, BrowserSerialRecord
  <2>3. /\ BrowserSerialRecord(q)
        /\ \A f \in Timing \ {"ended", "wake", "owed"} : q[f] = conn[c][f]
        /\ q.owed >= 0 /\ q.ended # NoEnding /\ q.wake >= q.owed
        /\ q = conn[c] \/ (q.ended = e /\ conn[c].ended = NoEnding)
    BY <2>1, <2>2, BrowserEnds
  <2>4. /\ \A f \in Timing \ {"closer"} : s[f] = q[f]
        /\ s.closer = "resting"
    BY <2>1, <2>3 DEF BrowserSerialRecord, Timing
  <2>5. BrowserCalm(s)
    BY <2>2, <2>3, <2>4 DEF BrowserCalm, Imposed, Timing
  <2>6. Honours(conn[c], s)
    BY <2>2, <2>3, <2>4 DEF Honours, Timing
  <2> QED BY <2>1, <2>5, <2>6 DEF BS!Set, BrowserHonours
<1>3. ASSUME BS!CloseRested(c) PROVE BrowserHonours(c)
  <2>1. PICK s : s = [conn[c] EXCEPT !.closer = "answered"]
    OBVIOUS
  <2>2. conn[c].ended # NoEnding /\ conn[c].wake = 0 /\ conn[c].owed \in Int
    BY <1>3 DEF BS!CloseRested, BrowserSerialRecord
  <2>3. conn[c].owed = 0
    BY <2>2 DEF BrowserCalm
  <2>4. /\ \A f \in Timing \ {"closer"} : s[f] = conn[c][f]
        /\ s.closer = "answered"
    BY <2>1 DEF BrowserSerialRecord, Timing
  <2>5. BrowserCalm(s)
    BY <2>4 DEF BrowserCalm, Imposed, Timing
  <2>6. Honours(conn[c], s)
    BY <2>3, <2>4 DEF Honours, Timing
  <2> QED BY <1>3, <2>1, <2>5, <2>6 DEF BS!Set, BS!CloseRested, BrowserHonours
<1> QED BY <1>1, <1>2, <1>3

\* Time covers and owes alike.
LEMMA BrowserTicks ==
    ASSUME NEW r, BrowserSerialRecord(r), BrowserCalm(r),
           NEW s, s = [r EXCEPT !.wake = BS!Less(@), !.owed = BS!Less(@)]
    PROVE  BrowserCalm(s) /\ Honours(r, s)
<1>1. /\ \A f \in Timing \ {"wake", "owed"} : s[f] = r[f]
      /\ s.wake = BS!Less(r.wake) /\ s.owed = BS!Less(r.owed)
      /\ r.wake \in Int /\ r.owed \in Int
  BY DEF BrowserSerialRecord, Timing
<1>2. PICK w \in Int, o \in Int : w = r.wake /\ o = r.owed
  BY <1>1
<1>3. /\ o >= 0 => BS!Less(o) >= 0
      /\ o = 0 => BS!Less(o) = 0
      /\ o >= 0 /\ w >= o => BS!Less(w) >= BS!Less(o)
  BY DEF BS!Less
<1>4. BrowserCalm(s)
  BY <1>1, <1>2, <1>3 DEF BrowserCalm, Imposed, Timing
<1>5. Honours(r, s)
  BY <1>1, HonoursSame DEF Timing
<1> QED BY <1>4, <1>5

\* Every step of the browser serial adapter keeps the silence.
LEMMA BrowserSilent ==
    ASSUME DOMAIN conn = Conns, \A c \in Conns : BrowserSerialRecord(conn[c]) /\ BrowserCalm(conn[c]),
           BS!BrowserNext
    PROVE  \A c \in Conns : BrowserHonours(c)
<1>1. CASE BS!Tick
  <2> SUFFICES ASSUME NEW c \in Conns PROVE BrowserHonours(c)
    OBVIOUS
  <2>1. PICK s : s = conn'[c]
    OBVIOUS
  <2>2. s = [conn[c] EXCEPT !.wake = BS!Less(@), !.owed = BS!Less(@)]
    BY <1>1, <2>1 DEF BS!Tick
  <2>3. BrowserCalm(s) /\ Honours(conn[c], s)
    BY <2>2, BrowserTicks
  <2> QED BY <2>1, <2>3 DEF BrowserHonours
<1>2. CASE ~BS!Tick
  <2>1. PICK c \in Conns :
          \/ BS!Open(c) \/ BS!Locked(c) \/ BS!NativeOpened(c) \/ BS!Drained(c)
          \/ BS!DrainFails(c) \/ BS!Abandoned(c) \/ BS!Rested(c)
          \/ BS!RecoveryElapsed(c) \/ BS!Cancelled(c) \/ BS!PortClosed(c)
          \/ BS!DisconnectEvent(c) \/ BS!StreamEnds(c) \/ BS!StreamFails(c)
          \/ BS!Write(c) \/ BS!WriteSettles(c) \/ BS!Receive(c)
          \/ BS!Invalidate(c, "fault") \/ BS!BeginRead(c) \/ BS!EndRead(c)
          \/ BS!Collect(c) \/ BS!PlatformTakes(c) \/ BS!Close(c)
          \/ BS!CloseReleased(c) \/ BS!CloseRested(c)
    BY <1>2 DEF BS!BrowserNext, BS!Channel, BS!Progress
  <2>2. BrowserHonours(c) /\ \E s : BrowserSerialGoes(c, s)
    <3>1. BrowserHonours(c)
      BY <2>1, BrowserSilence1, BrowserSilence2, BrowserSilence3, BrowserSilence4
    <3>2. \E s : BrowserSerialGoes(c, s)
      BY <2>1, BrowserSerialStep1, BrowserSerialStep2, BrowserSerialStep3
    <3> QED BY <3>1, <3>2
  <2>3. \A d \in Conns \ {c} : conn'[d] = conn[d]
    BY <2>2 DEF BrowserSerialGoes
  <2>4. \A d \in Conns \ {c} : BrowserHonours(d)
    BY <2>3, HonoursSame DEF BrowserHonours
  <2> QED BY <2>2, <2>4
<1> QED BY <1>1, <1>2

\* The step of one Node serial connection, from r to s, while what its path is owed
\* goes from m to n: it keeps the calm and the silence; only one that is not done
\* with lowers the recovery of the path; and who is done with stays so.
NodeMoves(m, r, n, s) ==
    /\ n \in Nat /\ NodeCalm(n, s) /\ Honours(r, s)
    /\ n >= m \/ ~DoneWith(r)
    /\ DoneWith(r) => DoneWith(s) \/ (r.place = "idle" /\ s.place # "idle")
    /\ r.place # "opening" /\ s.place = "opening" => m = 0 \/ ~DoneWith(r)

NodeHonours(c) == NodeMoves(recovery, conn[c], recovery', conn'[c])

\* One that stays where it is, with more or less to wait for, moves so.
LEMMA NodeStays ==
    ASSUME NEW m \in Nat, NEW n \in Nat, n >= m, NEW r, NEW s, NodeCalm(n, s),
           s.place = r.place, s.closer = r.closer, s.fd = r.fd \/ s.fd # "closing"
    PROVE  NodeMoves(m, r, n, s)
BY HonoursSame DEF NodeMoves, DoneWith

\* And so does one that has changed in nothing that the silence depends on.
LEMMA NodeStill ==
    ASSUME NEW m \in Nat, NEW r, NEW s, NodeCalm(m, r), \A f \in Timing \ {"fd", "release"} : s[f] = r[f],
           s.fd = r.fd \/ s.fd # "closing"
    PROVE  NodeMoves(m, r, m, s)
<1>1. /\ s.place = r.place /\ s.closer = r.closer /\ s.ended = r.ended
      /\ s.owed = r.owed /\ s.wake = r.wake
  BY DEF Timing
<1>2. NodeCalm(m, s)
  BY <1>1 DEF NodeCalm
<1>3. m >= m
  OBVIOUS
<1> QED BY <1>1, <1>2, <1>3, NodeStays

\* An ending: the recovery of the path covers the silence it owes.
LEMMA NodeEnds ==
    ASSUME recovery \in Nat, NEW r, NodeSerialType(r), NodeCalm(recovery, r),
           r.closer \in {"resting", "keeping", "releasingLate", "answered"} => r.ended # NoEnding,
           NEW e \in Endings, NEW s, s = NS!Finish(r, e), NEW n, n = NS!Noted(r, e)
    PROVE  /\ n \in Nat /\ n >= recovery /\ NodeSerialType(s) /\ NodeCalm(n, s)
           /\ s.place = r.place /\ s.closer = r.closer /\ s.fd = r.fd /\ s.hostClosing = r.hostClosing
           /\ r.place = "live" => s.ended # NoEnding
<1>0. NodeSerialType(s)
  BY NodeSerialFinished DEF NodeSerialEnding
<1>1. CASE NS!Usable(r)
  <2>1. PICK k : k = NS!SilenceOf(e)
    OBVIOUS
  <2>2. k \in Nat
    BY <2>1, SilenceAssumption DEF NS!SilenceOf
  <2>3. r.owed = 0 /\ r.place = "live" /\ r.ended = NoEnding
    BY <1>1 DEF NodeCalm, NS!Usable
  <2>4. NS!Larger(r.owed, k) = k
    BY <2>2, <2>3 DEF NS!Larger
  <2>5. n \in Nat /\ n >= recovery /\ n >= k
    BY <1>1, <2>1, <2>2 DEF NS!Noted, NS!Larger
  <2>6. PICK q : q = [r EXCEPT !.ended = e, !.heard = 0, !.reading = FALSE, !.owed = k]
    OBVIOUS
  <2>7. s = [q EXCEPT !.arbitration = NS!Off, !.receipt = IF @ = "pending" THEN "may-be-partial" ELSE @]
    BY <1>1, <2>1, <2>4, <2>6 DEF NS!Finish, NS!Finished
  <2>8. /\ q.place = r.place /\ q.closer = r.closer /\ q.fd = r.fd /\ q.hostClosing = r.hostClosing
        /\ q.ended = e /\ q.owed = k
        /\ DOMAIN q = DOMAIN r
    BY <2>6 DEF NodeSerialType
  <2>9. /\ s.place = q.place /\ s.closer = q.closer /\ s.fd = q.fd /\ s.hostClosing = q.hostClosing
        /\ s.ended = q.ended /\ s.owed = q.owed
    BY <2>6, <2>7 DEF NodeSerialType
  <2>10. s.ended # NoEnding
    BY <2>8, <2>9, EndingAssumption
  <2>11. NodeCalm(n, s)
    BY <2>2, <2>3, <2>5, <2>8, <2>9, <2>10 DEF NodeCalm
  <2> QED BY <1>0, <2>5, <2>8, <2>9, <2>10, <2>11
<1>2. CASE ~NS!Usable(r)
  <2>1. s = r /\ n = recovery
    BY <1>2 DEF NS!Finish, NS!Noted
  <2> QED BY <1>0, <1>2, <2>1 DEF NS!Usable
<1> QED BY <1>1, <1>2

\* The late release of a handle that was kept long enough.
LEMMA NodeLate ==
    ASSUME NEW m \in Nat, NEW r, NodeSerialType(r), NodeCalm(m, r), r.place = "live", r.ended # NoEnding,
           r.owed = 0, NEW s, s = NS!ReleaseLate(r)
    PROVE  NodeCalm(0, s) /\ NodeCalm(m, s) /\ s.place = "live" /\ s.owed = 0 /\ s.ended = r.ended
           /\ s.closer \in {"releasingLate", "answered"} /\ s.fd \in {r.fd, "closing"}
<1>1. CASE r.fd = "open"
  <2>1. s = [r EXCEPT !.closer = "releasingLate", !.fd = "closing", !.wake = NS!Off]
    BY <1>1 DEF NS!ReleaseLate
  <2>2. /\ s.place = "live" /\ s.owed = 0 /\ s.ended = r.ended
        /\ s.closer = "releasingLate" /\ s.fd = "closing"
    BY <2>1 DEF NodeSerialType
  <2> QED BY <2>2 DEF NodeCalm
<1>2. CASE r.fd # "open"
  <2>1. s = [r EXCEPT !.closer = "answered", !.wake = NS!Off]
    BY <1>2 DEF NS!ReleaseLate
  <2>2. /\ s.place = "live" /\ s.owed = 0 /\ s.ended = r.ended
        /\ s.closer = "answered" /\ s.fd = r.fd
    BY <2>1 DEF NodeSerialType
  <2> QED BY <2>2 DEF NodeCalm
<1> QED BY <1>1, <1>2

\* close() of one that has ended waits for as long as the path is owed.
LEMMA NodeKeeps ==
    ASSUME NEW m \in Nat, NEW r, NodeSerialType(r), NodeCalm(m, r), r.place = "live", r.ended # NoEnding,
           r.closer # "answered", NEW s, s = NS!Keep(r, m)
    PROVE  NodeCalm(m, s) /\ Honours(r, s) /\ s.place = "live"
<1>1. CASE m > 0
  <2>1. s = [r EXCEPT !.closer = "keeping", !.wake = m]
    BY <1>1 DEF NS!Keep
  <2>2. /\ s.place = "live" /\ s.owed = r.owed /\ s.ended = r.ended
        /\ s.closer = "keeping" /\ s.wake = m /\ s.fd = r.fd
    BY <2>1 DEF NodeSerialType
  <2> QED BY <2>2 DEF NodeCalm, Honours
<1>2. CASE ~(m > 0)
  <2>1. r.owed = 0 /\ m = 0
    <3>1. r.owed \in Int
      BY DEF NodeSerialType
    <3> QED BY <1>2, <3>1 DEF NodeCalm
  <2>2. s = NS!ReleaseLate(r)
    BY <1>2 DEF NS!Keep
  <2>3. NodeCalm(m, s) /\ s.place = "live" /\ s.owed = 0
    BY <2>1, <2>2, NodeLate
  <2> QED BY <2>1, <2>3 DEF Honours
<1> QED BY <1>1, <1>2

\* close() of one that was in use rests for as long.
LEMMA NodeRests ==
    ASSUME NEW m \in Nat, NEW r, NodeSerialType(r), NodeCalm(m, r), r.place = "live", r.ended # NoEnding,
           NEW s, s = NS!Waiting(r, m, "closer", "resting", "answered")
    PROVE  /\ NodeCalm(m, s) /\ s.place = "live" /\ s.fd = r.fd
           /\ s.closer = "answered" => s.owed = 0
<1>1. CASE m > 0
  <2>1. s = [r EXCEPT !.closer = "resting", !.wake = m]
    BY <1>1 DEF NS!Waiting
  <2>2. /\ s.place = "live" /\ s.owed = r.owed /\ s.ended = r.ended
        /\ s.closer = "resting" /\ s.wake = m /\ s.fd = r.fd
    BY <2>1 DEF NodeSerialType
  <2> QED BY <2>2 DEF NodeCalm
<1>2. CASE ~(m > 0)
  <2>1. r.owed = 0 /\ m = 0
    <3>1. r.owed \in Int
      BY DEF NodeSerialType
    <3> QED BY <1>2, <3>1 DEF NodeCalm
  <2>2. s = [r EXCEPT !.closer = "answered", !.wake = NS!Off]
    BY <1>2 DEF NS!Waiting
  <2>3. /\ s.place = "live" /\ s.owed = r.owed /\ s.ended = r.ended
        /\ s.closer = "answered" /\ s.fd = r.fd
    BY <2>2 DEF NodeSerialType
  <2> QED BY <2>1, <2>3 DEF NodeCalm
<1> QED BY <1>1, <1>2

\* What a Node serial connection knows of its close().
LEMMA NodeClosers ==
    ASSUME NEW r, NodeSerialRecord(r)
    PROVE  /\ NodeSerialType(r) /\ (r.closer # "none" => r.place = "live")
           /\ r.closer \in {"resting", "keeping", "releasingLate", "answered"} => r.ended # NoEnding
BY DEF NodeSerialRecord, NodeSerialType

\* open() of a Node serial connection.
LEMMA NodeSilence1 ==
    ASSUME NEW c \in Conns, c \in DOMAIN conn, recovery \in Nat, NodeSerialRecord(conn[c]),
           NodeCalm(recovery, conn[c])
    PROVE  /\ NS!Open(c) => NodeHonours(c)
           /\ NS!Recovered(c) => NodeHonours(c)
           /\ NS!NativeOpened(c) => NodeHonours(c)
           /\ NS!OpeningEvent(c) => NodeHonours(c)
           /\ NS!Drained(c) => NodeHonours(c)
           /\ NS!Abandon(c) => NodeHonours(c)
           /\ NS!Abandoned(c) => NodeHonours(c)
           /\ NS!Rested(c) => NodeHonours(c)
<1>1. PICK r, s, n : r = conn[c] /\ s = conn'[c] /\ n = recovery'
  OBVIOUS
<1>2. /\ NodeSerialType(r) /\ NodeCalm(recovery, r) /\ (r.closer # "none" => r.place = "live")
      /\ r.closer \in {"resting", "keeping", "releasingLate", "answered"} => r.ended # NoEnding
  BY <1>1, NodeClosers
<1>3. r.place # "live" => r.closer = "none" /\ r.ended = NoEnding /\ (r.place # "resting" => r.owed = 0)
  BY <1>2 DEF NodeCalm
<1>4. ASSUME NodeMoves(recovery, r, n, s) PROVE NodeHonours(c)
  BY <1>1, <1>4 DEF NodeHonours
<1>5. ASSUME NS!Open(c) PROVE NodeHonours(c)
  <2>1. r.place = "idle" /\ n = recovery /\ s = NS!Waiting(r, recovery, "place", "recovering", "opening")
    BY <1>1, <1>5 DEF NS!Open, NS!Set
  <2>2. /\ s.place = IF recovery > 0 THEN "recovering" ELSE "opening"
        /\ s.owed = r.owed /\ s.ended = r.ended /\ s.closer = r.closer /\ s.fd = r.fd
    <3>1. CASE recovery > 0
      <4>1. s = [r EXCEPT !.place = "recovering", !.wake = recovery]
        BY <2>1, <3>1 DEF NS!Waiting
      <4> QED BY <1>2, <3>1, <4>1 DEF NodeSerialType
    <3>2. CASE ~(recovery > 0)
      <4>1. s = [r EXCEPT !.place = "opening", !.wake = NS!Off]
        BY <2>1, <3>2 DEF NS!Waiting
      <4> QED BY <1>2, <3>2, <4>1 DEF NodeSerialType
    <3> QED BY <3>1, <3>2
  <2>3. s.place \in {"recovering", "opening"} /\ (s.place = "opening" => recovery = 0)
    BY <2>2
  <2>4. NodeCalm(n, s)
    BY <1>2, <1>3, <2>1, <2>2, <2>3 DEF NodeCalm
  <2>5. n >= recovery
    BY <2>1
  <2>6. NodeMoves(recovery, r, n, s)
    <3>1. Honours(r, s)
      BY <2>1, <2>2, <2>3 DEF Honours
    <3>2. n \in Nat /\ (s.place = "opening" => recovery = 0) /\ r.place = "idle" /\ s.place # "idle"
      BY <2>1, <2>3
    <3> QED BY <2>4, <2>5, <3>1, <3>2 DEF NodeMoves
  <2> QED BY <1>4, <2>6
<1>6. ASSUME NS!Recovered(c) PROVE NodeHonours(c)
  <2>1. r.place = "recovering" /\ n = 0 /\ s = [r EXCEPT !.place = "opening", !.wake = NS!Off]
    BY <1>1, <1>6 DEF NS!Recovered, NS!Set
  <2>2. /\ s.place = "opening" /\ s.owed = r.owed /\ s.ended = r.ended
        /\ s.closer = r.closer /\ s.fd = r.fd
    BY <1>2, <2>1 DEF NodeSerialType
  <2>3. NodeCalm(n, s)
    BY <1>2, <1>3, <2>1, <2>2 DEF NodeCalm
  <2>4. NodeMoves(recovery, r, n, s)
    BY <1>3, <2>1, <2>2, <2>3 DEF NodeMoves, Honours, DoneWith
  <2> QED BY <1>4, <2>4
<1>7. ASSUME NS!NativeOpened(c) PROVE NodeHonours(c)
  <2>1. /\ r.place = "opening" /\ n = recovery
        /\ s = [r EXCEPT !.place = "draining", !.fd = "open"] \/ s = [r EXCEPT !.place = "failed"]
    BY <1>1, <1>7 DEF NS!NativeOpened, NS!Set
  <2>2. /\ s.place \in {"draining", "failed"} /\ s.owed = r.owed /\ s.ended = r.ended
        /\ s.closer = r.closer /\ s.fd \in {r.fd, "open"}
    <3>1. CASE s = [r EXCEPT !.place = "draining", !.fd = "open"]
      BY <1>2, <3>1 DEF NodeSerialType
    <3>2. CASE s = [r EXCEPT !.place = "failed"]
      BY <1>2, <3>2 DEF NodeSerialType
    <3> QED BY <2>1, <3>1, <3>2
  <2>3. NodeCalm(n, s) /\ n >= recovery
    BY <1>2, <1>3, <2>1, <2>2 DEF NodeCalm
  <2>4. NodeMoves(recovery, r, n, s)
    BY <1>3, <2>1, <2>2, <2>3 DEF NodeMoves, Honours, DoneWith
  <2> QED BY <1>4, <2>4
<1>8. ASSUME NS!OpeningEvent(c) PROVE NodeHonours(c)
  <2>1. PICK fd \in {r.fd, "none"} : n = recovery /\ s = [r EXCEPT !.early = TRUE, !.fd = fd]
    BY <1>1, <1>8 DEF NS!OpeningEvent, NS!Set
  <2>2. /\ \A f \in Timing \ {"fd", "release"} : s[f] = r[f]
        /\ s.fd = fd
    BY <1>2, <2>1 DEF NodeSerialType, Timing
  <2>3. NodeMoves(recovery, r, n, s)
    BY <1>2, <2>1, <2>2, NodeStill
  <2> QED BY <1>4, <2>3
<1>9. ASSUME NS!Drained(c) PROVE NodeHonours(c)
  <2>1. r.place = "draining" /\ n = recovery /\ s = [r EXCEPT !.place = "live"]
    BY <1>1, <1>9 DEF NS!Drained, NS!Set
  <2>2. /\ s.place = "live" /\ s.owed = r.owed /\ s.ended = r.ended
        /\ s.closer = r.closer /\ s.fd = r.fd
    BY <1>2, <2>1 DEF NodeSerialType
  <2>3. NodeCalm(n, s) /\ n >= recovery
    BY <1>2, <1>3, <2>1, <2>2 DEF NodeCalm
  <2>4. NodeMoves(recovery, r, n, s)
    BY <1>3, <2>1, <2>2, <2>3 DEF NodeMoves, Honours, DoneWith
  <2> QED BY <1>4, <2>4
<1>10. ASSUME NS!Abandon(c) PROVE NodeHonours(c)
  <2>1. r.place = "draining" /\ n = recovery
    BY <1>1, <1>10 DEF NS!Abandon
  <2>2. PICK fd : s = [r EXCEPT !.place = "abandoning", !.fd = fd]
    BY <1>1, <1>10 DEF NS!Abandon, NS!Set
  <2>3. /\ s.place = "abandoning" /\ s.owed = r.owed /\ s.ended = r.ended /\ s.closer = r.closer
    BY <1>2, <2>2 DEF NodeSerialType
  <2>4. NodeCalm(n, s) /\ n >= recovery
    BY <1>2, <1>3, <2>1, <2>3 DEF NodeCalm
  <2>5. NodeMoves(recovery, r, n, s)
    BY <1>3, <2>1, <2>3, <2>4 DEF NodeMoves, Honours, DoneWith
  <2> QED BY <1>4, <2>5
<1>11. ASSUME NS!Abandoned(c) PROVE NodeHonours(c)
  <2>1. r.place = "abandoning" /\ n = NS!Larger(recovery, Abnormal) /\ Abnormal \in Nat
    BY <1>1, <1>11, SilenceAssumption DEF NS!Abandoned
  <2>2. n \in Nat /\ n >= recovery /\ n >= Abnormal
    BY <2>1 DEF NS!Larger
  <2>3. PICK fd \in {"none", "open"} :
          s = NS!Waiting([r EXCEPT !.fd = fd, !.refused = (fd = "open"), !.owed = Abnormal], n, "place", "resting", "failed")
    BY <1>1, <1>11 DEF NS!Abandoned, NS!Set
  <2>4. PICK q : q = [r EXCEPT !.fd = fd, !.refused = (fd = "open"), !.owed = Abnormal]
    OBVIOUS
  <2>5. /\ q.fd = fd /\ q.owed = Abnormal /\ q.place = r.place /\ q.ended = r.ended /\ q.closer = r.closer
        /\ NodeSerialType(q)
    <3>1. (fd = "open") \in BOOLEAN /\ Abnormal \in Int
      BY <2>1
    <3>2. NodeSerialType(q)
      BY <1>2, <2>4, <3>1 DEF NodeSerialType
    <3>3. q.fd = fd /\ q.owed = Abnormal /\ q.place = r.place /\ q.ended = r.ended /\ q.closer = r.closer
      BY <1>2, <2>4 DEF NodeSerialType
    <3> QED BY <3>2, <3>3
  <2>6. CASE n > 0
    <3>1. s = [q EXCEPT !.place = "resting", !.wake = n]
      BY <2>3, <2>4, <2>6 DEF NS!Waiting
    <3>2. /\ s.place = "resting" /\ s.wake = n /\ s.owed = Abnormal /\ s.ended = r.ended /\ s.closer = r.closer
          /\ s.fd = fd
      BY <2>5, <3>1 DEF NodeSerialType
    <3>3. NodeCalm(n, s)
      BY <1>3, <2>1, <2>2, <3>2 DEF NodeCalm
    <3>4. NodeMoves(recovery, r, n, s)
      BY <1>3, <2>1, <2>2, <3>2, <3>3 DEF NodeMoves, Honours, DoneWith
    <3> QED BY <1>4, <3>4
  <2>7. CASE ~(n > 0)
    <3>1. s = [q EXCEPT !.place = "failed", !.wake = NS!Off]
      BY <2>3, <2>4, <2>7 DEF NS!Waiting
    <3>2. /\ s.place = "failed" /\ s.owed = Abnormal /\ s.ended = r.ended /\ s.closer = r.closer
          /\ s.fd = fd
      BY <2>5, <3>1 DEF NodeSerialType
    <3>3. Abnormal = 0 /\ n = 0
      BY <2>1, <2>2, <2>7
    <3>4. NodeCalm(n, s)
      BY <1>3, <2>1, <2>2, <3>2, <3>3 DEF NodeCalm
    <3>5. NodeMoves(recovery, r, n, s)
      BY <1>3, <2>1, <2>2, <3>2, <3>4 DEF NodeMoves, Honours, DoneWith
    <3> QED BY <1>4, <3>5
  <2> QED BY <2>6, <2>7
<1>12. ASSUME NS!Rested(c) PROVE NodeHonours(c)
  <2>1. r.place = "resting" /\ r.wake = 0 /\ n = 0 /\ s = [r EXCEPT !.place = "failed", !.wake = NS!Off]
    BY <1>1, <1>12 DEF NS!Rested, NS!Set
  <2>2. /\ s.place = "failed" /\ s.owed = r.owed /\ s.ended = r.ended
        /\ s.closer = r.closer /\ s.fd = r.fd /\ r.owed \in Int
    BY <1>2, <2>1 DEF NodeSerialType
  <2>3. r.owed = 0
    BY <1>2, <2>1, <2>2 DEF NodeCalm
  <2>4. NodeCalm(n, s)
    BY <1>2, <1>3, <2>1, <2>2, <2>3 DEF NodeCalm
  <2>5. NodeMoves(recovery, r, n, s)
    BY <1>3, <2>1, <2>2, <2>3, <2>4 DEF NodeMoves, Honours, DoneWith
  <2> QED BY <1>4, <2>5
<1> QED BY <1>5, <1>6, <1>7, <1>8, <1>9, <1>10, <1>11, <1>12

\* The handle's own changes leave it as calm.
LEMMA NodeHandled ==
    ASSUME NEW m \in Nat, NEW r, NodeSerialType(r), NodeCalm(m, r),
           r.closer \in {"resting", "keeping", "releasingLate", "answered"} => r.ended # NoEnding,
           NEW q, NodeSerialType(q), \A f \in Timing \ {"fd", "hostClosing", "release"} : q[f] = r[f]
    PROVE  /\ NodeCalm(m, q)
           /\ q.closer \in {"resting", "keeping", "releasingLate", "answered"} => q.ended # NoEnding
           /\ q.place = r.place /\ q.closer = r.closer /\ q.ended = r.ended
<1>1. /\ q.place = r.place /\ q.closer = r.closer /\ q.ended = r.ended
      /\ q.owed = r.owed /\ q.wake = r.wake
  BY DEF Timing
<1> QED BY <1>1 DEF NodeCalm

\* The errors and the close that the native port reports.
LEMMA NodeSilence2 ==
    ASSUME NEW c \in Conns, c \in DOMAIN conn, recovery \in Nat, NodeSerialRecord(conn[c]),
           NodeCalm(recovery, conn[c])
    PROVE  /\ NS!LossError(c) => NodeHonours(c)
           /\ NS!RejectionError(c) => NodeHonours(c)
           /\ NS!PlainError(c) => NodeHonours(c)
           /\ NS!Arbitrated(c) => NodeHonours(c)
           /\ NS!NativeClosed(c) => NodeHonours(c)
<1>1. PICK r, s, n : r = conn[c] /\ s = conn'[c] /\ n = recovery'
  OBVIOUS
<1>2. /\ NodeSerialType(r) /\ NodeCalm(recovery, r) /\ (r.closer # "none" => r.place = "live")
      /\ r.closer \in {"resting", "keeping", "releasingLate", "answered"} => r.ended # NoEnding
  BY <1>1, NodeClosers
<1>3. ASSUME NodeMoves(recovery, r, n, s) PROVE NodeHonours(c)
  BY <1>1, <1>3 DEF NodeHonours
<1>4. ASSUME NEW q, NodeSerialType(q), \A f \in Timing \ {"fd", "hostClosing", "release"} : q[f] = r[f],
             q.fd = r.fd \/ q.fd # "closing",
             NEW e \in Endings, s = NS!Finish(q, e), n = NS!Noted(q, e)
      PROVE  NodeMoves(recovery, r, n, s)
  <2>1. /\ NodeCalm(recovery, q)
        /\ q.closer \in {"resting", "keeping", "releasingLate", "answered"} => q.ended # NoEnding
        /\ q.place = r.place /\ q.closer = r.closer /\ q.ended = r.ended
    BY <1>2, <1>4, NodeHandled
  <2>2. /\ n \in Nat /\ n >= recovery /\ NodeCalm(n, s)
        /\ s.place = q.place /\ s.closer = q.closer /\ s.fd = q.fd
    BY <1>4, <2>1, NodeEnds
  <2> QED BY <1>4, <2>1, <2>2, NodeStays
<1>5. "device-lost" \in Endings /\ "closed-by-host" \in Endings /\ "fault" \in Endings
  BY DEF Endings
<1>6. ASSUME NS!LossError(c) PROVE NodeHonours(c)
  <2>1. PICK q : q = [r EXCEPT !.fd = "dying"]
    OBVIOUS
  <2>2. /\ NodeSerialType(q) /\ q.fd = "dying" /\ q.hostClosing = r.hostClosing
        /\ \A f \in Timing \ {"fd", "release"} : q[f] = r[f]
    BY <1>2, <2>1 DEF NodeSerialType, Timing
  <2>3. \/ s = q /\ n = recovery
        \/ s = NS!Finish(q, "device-lost") /\ n = NS!Noted(q, "device-lost")
    BY <1>1, <1>6, <2>1, <2>2 DEF NS!LossError, NS!Set
  <2>4. CASE s = q /\ n = recovery
    BY <1>2, <1>3, <2>2, <2>4, NodeStill
  <2>5. CASE s = NS!Finish(q, "device-lost") /\ n = NS!Noted(q, "device-lost")
    BY <1>3, <1>4, <1>5, <2>2, <2>5
  <2> QED BY <2>3, <2>4, <2>5
<1>7. ASSUME NS!RejectionError(c) PROVE NodeHonours(c)
  <2>1a. PICK arbitration : s = [r EXCEPT !.fd = "dying", !.arbitration = arbitration]
    BY <1>1, <1>7 DEF NS!RejectionError, NS!Set
  <2>1. n = recovery
    BY <1>1, <1>7 DEF NS!RejectionError
  <2>2. s.fd = "dying" /\ \A f \in Timing \ {"fd", "release"} : s[f] = r[f]
    BY <1>2, <2>1a DEF NodeSerialType, Timing
  <2> QED BY <1>2, <1>3, <2>1, <2>2, NodeStill
<1>8. ASSUME NS!End(c, "fault") PROVE NodeHonours(c)
  <2>1. s = NS!Finish(r, "fault") /\ n = NS!Noted(r, "fault")
    BY <1>1, <1>8 DEF NS!End, NS!Set
  <2> QED BY <1>2, <1>3, <1>4, <1>5, <2>1
<1>9. ASSUME NS!PlainError(c) \/ NS!Arbitrated(c) PROVE NodeHonours(c)
  BY <1>8, <1>9 DEF NS!PlainError, NS!Arbitrated
<1>10. ASSUME NS!NativeClosed(c) PROVE NodeHonours(c)
  <2>1. PICK q : q = [r EXCEPT !.fd = "none"]
    OBVIOUS
  <2>2. /\ NodeSerialType(q) /\ q.fd = "none"
        /\ \A f \in Timing \ {"fd", "release"} : q[f] = r[f]
    BY <1>2, <2>1 DEF NodeSerialType, Timing
  <2>3. PICK e \in {"closed-by-host", "device-lost"} : s = NS!Finish(q, e) /\ n = NS!Noted(q, e)
    BY <1>1, <1>10, <2>1 DEF NS!NativeClosed, NS!Set
  <2> QED BY <1>3, <1>4, <1>5, <2>2, <2>3
<1> QED BY <1>6, <1>7, <1>9, <1>10

\* What only its channel sees changes nothing that the silence depends on.
LEMMA NodeSilence3 ==
    ASSUME NEW c \in Conns, c \in DOMAIN conn, recovery \in Nat, NodeSerialRecord(conn[c]),
           NodeCalm(recovery, conn[c])
    PROVE  /\ NS!BeginRead(c) /\ UNCHANGED recovery => NodeHonours(c)
           /\ NS!EndRead(c) /\ UNCHANGED recovery => NodeHonours(c)
           /\ NS!Collect(c) /\ UNCHANGED recovery => NodeHonours(c)
           /\ NS!PlatformTakes(c) /\ UNCHANGED recovery => NodeHonours(c)
           /\ NS!Write(c) => NodeHonours(c)
           /\ NS!WriteCallback(c) => NodeHonours(c)
<1>1. PICK r, s, n : r = conn[c] /\ s = conn'[c] /\ n = recovery'
  OBVIOUS
<1>2. /\ NodeSerialType(r) /\ NodeCalm(recovery, r) /\ (r.closer # "none" => r.place = "live")
      /\ r.closer \in {"resting", "keeping", "releasingLate", "answered"} => r.ended # NoEnding
  BY <1>1, NodeClosers
<1>3. ASSUME NodeMoves(recovery, r, n, s) PROVE NodeHonours(c)
  BY <1>1, <1>3 DEF NodeHonours
<1>4. ASSUME UNCHANGED recovery, \A f \in Timing \ {"release"} : s[f] = r[f] PROVE NodeHonours(c)
  <2>1. s.fd = r.fd /\ (\A f \in Timing \ {"fd", "release"} : s[f] = r[f]) /\ n = recovery
    BY <1>1, <1>4 DEF Timing
  <2> QED BY <1>2, <1>3, <2>1, NodeStill
<1>5. ASSUME NS!BeginRead(c), UNCHANGED recovery PROVE NodeHonours(c)
  <2>1. s = [r EXCEPT !.reading = TRUE]
    BY <1>1, <1>5 DEF NS!BeginRead, NS!Set
  <2>2. \A f \in Timing \ {"release"} : s[f] = r[f]
    BY <1>2, <2>1 DEF NodeSerialType, Timing
  <2> QED BY <1>4, <1>5, <2>2
<1>6. ASSUME NS!EndRead(c), UNCHANGED recovery PROVE NodeHonours(c)
  <2>1. s = [r EXCEPT !.reading = FALSE, !.heard = @ - 1] \/ s = [r EXCEPT !.reading = FALSE]
    BY <1>1, <1>6 DEF NS!EndRead, NS!Set
  <2>2. \A f \in Timing \ {"release"} : s[f] = r[f]
    BY <1>2, <2>1 DEF NodeSerialType, Timing
  <2> QED BY <1>4, <1>6, <2>2
<1>7. ASSUME NS!Collect(c), UNCHANGED recovery PROVE NodeHonours(c)
  <2>1. s = [r EXCEPT !.receipt = "none"]
    BY <1>1, <1>7 DEF NS!Collect, NS!Set
  <2>2. \A f \in Timing \ {"release"} : s[f] = r[f]
    BY <1>2, <2>1 DEF NodeSerialType, Timing
  <2> QED BY <1>4, <1>7, <2>2
<1>8. ASSUME NS!PlatformTakes(c), UNCHANGED recovery PROVE NodeHonours(c)
  <2>1. s = [r EXCEPT !.flight = "taken"]
    BY <1>1, <1>8 DEF NS!PlatformTakes, NS!Set
  <2>2. \A f \in Timing \ {"release"} : s[f] = r[f]
    BY <1>2, <2>1 DEF NodeSerialType, Timing
  <2> QED BY <1>4, <1>8, <2>2
<1>9. ASSUME NS!Write(c) PROVE NodeHonours(c)
  <2>1. s = [r EXCEPT !.receipt = "pending", !.flight = "sent"] /\ UNCHANGED recovery
    BY <1>1, <1>9 DEF NS!Write, NS!Set
  <2>2. \A f \in Timing \ {"release"} : s[f] = r[f]
    BY <1>2, <2>1 DEF NodeSerialType, Timing
  <2> QED BY <1>4, <2>1, <2>2
<1>10. ASSUME NS!WriteCallback(c) PROVE NodeHonours(c)
  <2>1. PICK receipt : s = [r EXCEPT !.receipt = receipt, !.flight = "none"]
    BY <1>1, <1>10 DEF NS!WriteCallback, NS!Settled, NS!Set
  <2>2. \A f \in Timing \ {"release"} : s[f] = r[f]
    BY <1>2, <2>1 DEF NodeSerialType, Timing
  <2>3. UNCHANGED recovery
    BY <1>10 DEF NS!WriteCallback
  <2> QED BY <1>4, <2>2, <2>3
<1> QED BY <1>5, <1>6, <1>7, <1>8, <1>9, <1>10

\* A connection that is live and stays so.
LEMMA NodeLives ==
    ASSUME NEW m \in Nat, NEW n \in Nat, NEW r, NEW s, r.place = "live", s.place = "live", NodeCalm(n, s),
           r.closer # "answered",
           s.closer = "answered" => s.owed = 0,
           r.fd = "open" /\ s.fd = "closing" /\ Imposed(r) => r.owed = 0
    PROVE  NodeMoves(m, r, n, s)
BY DEF NodeMoves, Honours, DoneWith

\* What is heard, an imposed ending, and close().
LEMMA NodeSilence4 ==
    ASSUME NEW c \in Conns, c \in DOMAIN conn, recovery \in Nat, NodeSerialRecord(conn[c]),
           NodeCalm(recovery, conn[c])
    PROVE  /\ NS!Receive(c) => NodeHonours(c)
           /\ NS!Invalidate(c, "fault") => NodeHonours(c)
           /\ NS!Close(c) => NodeHonours(c)
           /\ NS!Released(c) => NodeHonours(c)
           /\ NS!Kept(c) => NodeHonours(c)
           /\ NS!ReleasedLate(c) => NodeHonours(c)
           /\ NS!CloseRested(c) => NodeHonours(c)
<1>1. PICK r, s, n : r = conn[c] /\ s = conn'[c] /\ n = recovery'
  OBVIOUS
<1>2. /\ NodeSerialType(r) /\ NodeCalm(recovery, r) /\ (r.closer # "none" => r.place = "live")
      /\ r.closer \in {"resting", "keeping", "releasingLate", "answered"} => r.ended # NoEnding
  BY <1>1, NodeClosers
<1>3. ASSUME NodeMoves(recovery, r, n, s) PROVE NodeHonours(c)
  BY <1>1, <1>3 DEF NodeHonours
<1>4. ASSUME NEW e \in Endings, NS!Invalidate(c, e) PROVE NodeHonours(c)
  <2>1. NS!Usable(r) /\ n = NS!Noted(r, e)
    BY <1>1, <1>4 DEF NS!Invalidate
  <2>2. PICK q : q = NS!Finish(r, e)
    OBVIOUS
  <2>3. s = IF q.closer = "none" THEN NS!Keep(q, n) ELSE q
    BY <1>1, <1>4, <2>2 DEF NS!Invalidate, NS!Set
  <2>4. /\ n \in Nat /\ n >= recovery /\ NodeSerialType(q) /\ NodeCalm(n, q)
        /\ q.place = r.place /\ q.closer = r.closer /\ q.fd = r.fd /\ q.hostClosing = r.hostClosing
        /\ r.place = "live" => q.ended # NoEnding
    BY <1>2, <2>1, <2>2, NodeEnds
  <2>5. r.place = "live" /\ r.ended = NoEnding /\ r.closer # "answered"
    BY <1>2, <2>1 DEF NS!Usable
  <2>6. ~Imposed(r)
    BY <2>5, EndingAssumption DEF Imposed, Endings
  <2>7. CASE q.closer # "none"
    BY <1>2, <1>3, <2>3, <2>4, <2>7, NodeStays
  <2>8. CASE q.closer = "none"
    <3>1. NodeCalm(n, s) /\ Honours(q, s) /\ s.place = "live"
      BY <2>3, <2>4, <2>5, <2>8, NodeKeeps
    <3>2. s.closer = "answered" => s.owed = 0
      BY <2>8, <3>1 DEF Honours
    <3> QED BY <1>2, <1>3, <2>4, <2>5, <2>6, <3>1, <3>2, NodeLives
  <2> QED BY <2>7, <2>8
<1>5. "receive-overflow" \in Endings /\ "closed-by-host" \in Endings /\ "fault" \in Endings
  BY DEF Endings
<1>6. ASSUME NS!Receive(c) PROVE NodeHonours(c)
  <2>1. CASE NS!Invalidate(c, "receive-overflow")
    BY <1>4, <1>5, <2>1
  <2>2. CASE s = [r EXCEPT !.heard = @ + 1] /\ n = recovery
    <3>1. s.fd = r.fd /\ \A f \in Timing \ {"fd", "release"} : s[f] = r[f]
      BY <1>2, <2>2 DEF NodeSerialType, Timing
    <3> QED BY <1>2, <1>3, <2>2, <3>1, NodeStill
  <2> QED BY <1>1, <1>6, <2>1, <2>2 DEF NS!Receive, NS!Set
\* A release that has been answered: what ends here rests.
<1>7. ASSUME NEW q, NodeSerialType(q), \A f \in Timing \ {"fd", "hostClosing", "release"} : q[f] = r[f],
             r.place = "live", r.closer \in {"none", "releasing"}, q.fd # "closing" \/ r.fd # "open",
             NEW e \in Endings, n = NS!Noted(q, e),
             s = NS!Waiting(NS!Finish(q, e), n, "closer", "resting", "answered")
      PROVE  NodeMoves(recovery, r, n, s)
  <2>1. /\ NodeCalm(recovery, q)
        /\ q.closer \in {"resting", "keeping", "releasingLate", "answered"} => q.ended # NoEnding
        /\ q.place = r.place /\ q.closer = r.closer /\ q.ended = r.ended
    BY <1>2, <1>7, NodeHandled
  <2>2. PICK p : p = NS!Finish(q, e)
    OBVIOUS
  <2>3. /\ n \in Nat /\ n >= recovery /\ NodeSerialType(p) /\ NodeCalm(n, p)
        /\ p.place = q.place /\ p.closer = q.closer /\ p.fd = q.fd
        /\ q.place = "live" => p.ended # NoEnding
    BY <1>2, <1>7, <2>1, <2>2, NodeEnds
  <2>4. /\ NodeCalm(n, s) /\ s.place = "live" /\ s.fd = p.fd
        /\ s.closer = "answered" => s.owed = 0
    <3>1. s = NS!Waiting(p, n, "closer", "resting", "answered")
      BY <1>7, <2>2
    <3> QED BY <1>7, <2>1, <2>3, <3>1, NodeRests
  <2>5. r.closer # "answered" /\ (r.fd = "open" /\ s.fd = "closing" /\ Imposed(r) => r.owed = 0)
    BY <1>7, <2>3, <2>4
  <2> QED BY <1>2, <1>7, <2>3, <2>4, <2>5, NodeLives
<1>8. ASSUME NS!Close(c) PROVE NodeHonours(c)
  <2>1. r.place = "live" /\ r.closer = "none"
    BY <1>1, <1>8 DEF NS!Close
  <2>2. CASE ~NS!Usable(r) /\ s = NS!Keep(r, recovery) /\ n = recovery
    <3>1. r.ended # NoEnding
      BY <2>1, <2>2 DEF NS!Usable
    <3>2. NodeCalm(recovery, s) /\ Honours(r, s) /\ s.place = "live"
      BY <1>2, <2>1, <2>2, <3>1, NodeKeeps
    <3>3. /\ s.closer = "answered" => s.owed = 0
          /\ r.fd = "open" /\ s.fd = "closing" /\ Imposed(r) => r.owed = 0
      BY <2>1, <3>2 DEF Honours
    <3>4. NodeMoves(recovery, r, n, s)
      BY <2>1, <2>2, <3>2, <3>3, NodeLives
    <3> QED BY <1>3, <3>4
  <2>3. CASE NS!Usable(r) /\ r.fd = "open" /\ n = recovery
             /\ s = [r EXCEPT !.hostClosing = TRUE, !.closer = "releasing", !.fd = "closing"]
    <3>1. /\ s.closer = "releasing" /\ s.place = "live" /\ s.owed = r.owed /\ s.ended = r.ended
      BY <1>2, <2>1, <2>3 DEF NodeSerialType
    <3>2. ~Imposed(r)
      BY <2>3, EndingAssumption DEF Imposed, Endings, NS!Usable
    <3>3. NodeCalm(n, s)
      BY <1>2, <2>1, <2>3, <3>1 DEF NodeCalm
    <3> QED BY <1>3, <2>1, <2>3, <3>1, <3>2, <3>3, NodeLives
  <2>4. CASE NS!Usable(r) /\ r.fd # "open" /\ n = NS!Noted(r, "closed-by-host")
             /\ s = NS!Waiting(NS!Finish([r EXCEPT !.hostClosing = TRUE], "closed-by-host"),
                               n, "closer", "resting", "answered")
    <3>1. PICK q : q = [r EXCEPT !.hostClosing = TRUE]
      OBVIOUS
    <3>2. NodeSerialType(q)
      BY <1>2, <3>1 DEF NodeSerialType
    <3>3. /\ q.fd = r.fd /\ \A f \in Timing \ {"fd", "hostClosing", "release"} : q[f] = r[f]
      BY <1>2, <3>1 DEF NodeSerialType, Timing
    <3>4. q.place = r.place /\ q.ended = r.ended
      BY <3>3 DEF Timing
    <3>5. n = NS!Noted(q, "closed-by-host")
      BY <2>4, <3>4 DEF NS!Noted, NS!Usable
    <3> QED BY <1>3, <1>5, <1>7, <2>1, <2>4, <3>1, <3>2, <3>3, <3>5
  <2>5. PICK t : t = recovery'
    OBVIOUS
  <2> QED BY <1>1, <1>8, <2>2, <2>3, <2>4 DEF NS!Close, NS!Set
<1>9. ASSUME NS!Released(c) PROVE NodeHonours(c)
  <2>1. r.closer = "releasing" /\ r.place = "live"
    BY <1>1, <1>2, <1>9 DEF NS!Released
  <2>2a. PICK done \in BOOLEAN :
          LET q == [r EXCEPT !.fd = IF done THEN "none" ELSE "open", !.refused = ~done]
              e == IF done THEN "closed-by-host" ELSE "fault"
          IN  /\ n = NS!Noted(q, e)
              /\ s = NS!Waiting(NS!Finish(q, e), n, "closer", "resting", "answered")
    BY <1>1, <1>9 DEF NS!Released, NS!Set
  <2>2b. PICK q, e : /\ q = [r EXCEPT !.fd = IF done THEN "none" ELSE "open", !.refused = ~done]
                    /\ e = (IF done THEN "closed-by-host" ELSE "fault")
    OBVIOUS
  <2>2. /\ q = [r EXCEPT !.fd = IF done THEN "none" ELSE "open", !.refused = ~done]
        /\ e = (IF done THEN "closed-by-host" ELSE "fault")
        /\ n = NS!Noted(q, e)
        /\ s = NS!Waiting(NS!Finish(q, e), n, "closer", "resting", "answered")
    BY <2>2a, <2>2b
  <2>3. NodeSerialType(q)
    BY <1>2, <2>2 DEF NodeSerialType
  <2>4. \A f \in Timing \ {"fd", "hostClosing", "release"} : q[f] = r[f]
    BY <1>2, <2>2 DEF NodeSerialType, Timing
  <2>5. q.fd # "closing" /\ e \in Endings
    BY <1>2, <1>5, <2>2 DEF NodeSerialType
  <2> QED BY <1>3, <1>7, <2>1, <2>2, <2>3, <2>4, <2>5
<1>10. ASSUME NS!Kept(c) PROVE NodeHonours(c)
  <2>1. r.closer = "keeping" /\ r.wake = 0 /\ n = 0 /\ s = NS!ReleaseLate(r) /\ r.place = "live"
    BY <1>1, <1>2, <1>10 DEF NS!Kept, NS!Set
  <2>2. r.ended # NoEnding /\ r.owed = 0
    <3>1. r.owed \in Int
      BY <1>2 DEF NodeSerialType
    <3> QED BY <1>2, <2>1, <3>1 DEF NodeCalm
  <2>3. NodeCalm(0, s) /\ s.place = "live" /\ s.owed = 0
    BY <1>2, <2>1, <2>2, NodeLate
  <2> QED BY <1>2, <1>3, <2>1, <2>2, <2>3, NodeLives
<1>11. ASSUME NS!ReleasedLate(c) PROVE NodeHonours(c)
  <2>1. r.closer = "releasingLate" /\ r.place = "live" /\ n = recovery
    BY <1>1, <1>2, <1>11 DEF NS!ReleasedLate
  <2>2a. PICK done \in BOOLEAN :
           s = [r EXCEPT !.closer = "answered", !.refused = ~done, !.fd = IF done THEN "none" ELSE "open"]
    BY <1>1, <1>11 DEF NS!ReleasedLate, NS!Set
  <2>2. PICK fd \in {"none", "open"} : s = [r EXCEPT !.closer = "answered", !.refused = ~done, !.fd = fd]
    BY <2>2a
  <2>3. /\ s.place = "live" /\ s.closer = "answered" /\ s.fd = fd /\ s.owed = r.owed /\ s.ended = r.ended
    BY <1>2, <2>1, <2>2 DEF NodeSerialType
  <2>4. r.owed = 0
    BY <1>2, <2>1 DEF NodeCalm
  <2>5. NodeCalm(n, s)
    BY <1>2, <2>1, <2>3, <2>4 DEF NodeCalm
  <2> QED BY <1>2, <1>3, <2>1, <2>2, <2>3, <2>4, <2>5, NodeLives
<1>12. ASSUME NS!CloseRested(c) PROVE NodeHonours(c)
  <2>1. r.closer = "resting" /\ r.wake = 0 /\ n = 0 /\ r.place = "live"
        /\ s = [r EXCEPT !.closer = "answered", !.wake = NS!Off]
    BY <1>1, <1>2, <1>12 DEF NS!CloseRested, NS!Set
  <2>2. r.ended # NoEnding /\ r.owed = 0
    <3>1. r.owed \in Int
      BY <1>2 DEF NodeSerialType
    <3> QED BY <1>2, <2>1, <3>1 DEF NodeCalm
  <2>3. /\ s.place = "live" /\ s.closer = "answered" /\ s.fd = r.fd /\ s.owed = r.owed /\ s.ended = r.ended
    BY <1>2, <2>1 DEF NodeSerialType
  <2>4. NodeCalm(0, s)
    BY <1>2, <2>1, <2>2, <2>3 DEF NodeCalm
  <2> QED BY <1>2, <1>3, <2>1, <2>2, <2>3, <2>4, NodeLives
<1> QED BY <1>4, <1>5, <1>6, <1>8, <1>9, <1>10, <1>11, <1>12

\* A tick of the clock: what is waited for and what is owed go down together.
LEMMA NodeTicks ==
    ASSUME NEW m \in Nat, NEW r, NodeCalm(m, r), r.wake \in Int, r.owed \in Int, NEW n, n = NS!Less(m),
           NEW s, s.place = r.place, s.closer = r.closer, s.fd = r.fd, s.ended = r.ended,
           s.wake = NS!Less(r.wake), s.owed = NS!Less(r.owed)
    PROVE  n \in Nat /\ NodeCalm(n, s) /\ Honours(r, s)
<1>1. /\ s.place = r.place /\ s.closer = r.closer /\ s.fd = r.fd /\ s.ended = r.ended
      /\ s.wake = NS!Less(r.wake) /\ s.owed = NS!Less(r.owed)
      /\ r.wake \in Int /\ r.owed \in Int
  OBVIOUS
<1>2. PICK w \in Int, o \in Int : w = r.wake /\ o = r.owed
  BY <1>1
<1>3. /\ o >= 0 => NS!Less(o) >= 0
      /\ o = 0 => NS!Less(o) = 0
      /\ o >= 0 /\ w >= o => NS!Less(w) >= NS!Less(o)
      /\ o >= 0 /\ m >= o => NS!Less(m) >= NS!Less(o)
      /\ n \in Nat
  BY DEF NS!Less
<1>4. NodeCalm(n, s)
  BY <1>1, <1>2, <1>3 DEF NodeCalm
<1>5. Honours(r, s)
  BY <1>1, HonoursSame
<1> QED BY <1>1, <1>3, <1>4, <1>5

\* A connection that is done with owes nothing.
LEMMA NodeDone ==
    ASSUME NEW m, NEW r, NodeCalm(m, r), DoneWith(r)
    PROVE  r.owed = 0
BY EndingAssumption DEF NodeCalm, DoneWith

\* While one connection moves the others are as calm.
LEMMA NodeShared ==
    ASSUME NEW m \in Nat, NEW n \in Nat, NEW r, NodeCalm(m, r), n >= m \/ r.owed = 0, r.owed \in Int
    PROVE  NodeCalm(n, r)
BY DEF NodeCalm

\* A native open() of the path begins only when nothing is owed to the device.
NodeOpens(c) ==
    conn[c].place # "opening" /\ conn'[c].place = "opening" => \A d \in Conns : conn'[d].owed = 0

\* Every step of the Node serial adapter keeps the silence.
LEMMA NodeSilent ==
    ASSUME DOMAIN conn = Conns, \A c \in Conns : NodeSerialRecord(conn[c]), NodeQuiet, NS!SerialNext
    PROVE  /\ \A c \in Conns : Honours(conn[c], conn'[c]) /\ NodeOpens(c)
           /\ ~OutOfTurn => NodeQuiet'
<1>0. recovery \in Nat /\ \A c \in Conns : NodeCalm(recovery, conn[c]) /\ NodeSerialType(conn[c])
  BY DEF NodeQuiet, NodeSerialRecord
<1>1. CASE NS!Tick
  <2>1. \A c \in Conns : /\ recovery' \in Nat /\ NodeCalm(recovery', conn'[c]) /\ Honours(conn[c], conn'[c])
                         /\ conn'[c].place = conn[c].place /\ conn'[c].closer = conn[c].closer
    <3> SUFFICES ASSUME NEW c \in Conns
                 PROVE  /\ recovery' \in Nat /\ NodeCalm(recovery', conn'[c]) /\ Honours(conn[c], conn'[c])
                        /\ conn'[c].place = conn[c].place /\ conn'[c].closer = conn[c].closer
      OBVIOUS
    <3>1. PICK r, s, n : r = conn[c] /\ s = conn'[c] /\ n = recovery'
      OBVIOUS
    <3>2. n = NS!Less(recovery)
      BY <1>1, <3>1 DEF NS!Tick
    <3>3. s = [r EXCEPT !.wake = NS!Less(@), !.owed = NS!Less(@), !.arbitration = NS!Less(@)]
      BY <1>1, <3>1 DEF NS!Tick
    <3>4. recovery \in Nat /\ NodeSerialType(r) /\ NodeCalm(recovery, r)
      BY <1>0, <3>1
    <3>5. /\ s.place = r.place /\ s.closer = r.closer /\ s.fd = r.fd /\ s.ended = r.ended
          /\ s.wake = NS!Less(r.wake) /\ s.owed = NS!Less(r.owed)
          /\ r.wake \in Int /\ r.owed \in Int
      BY <3>3, <3>4 DEF NodeSerialType
    <3>6. n \in Nat /\ NodeCalm(n, s) /\ Honours(r, s)
      BY <3>2, <3>4, <3>5, NodeTicks
    <3> QED BY <3>1, <3>5, <3>6
  <2>2. recovery' \in Nat
    <3>1. recovery' = NS!Less(recovery)
      BY <1>1 DEF NS!Tick
    <3> QED BY <1>0, <3>1 DEF NS!Less
  <2>3. \A c \in Conns : DoneWith(conn'[c]) <=> DoneWith(conn[c])
    BY <2>1 DEF DoneWith
  <2>4. NodeQuiet'
    BY <2>1, <2>2, <2>3 DEF NodeQuiet, DoneWith
  <2> QED BY <2>1, <2>4 DEF NodeOpens
<1>2. CASE ~NS!Tick
  <2>1. PICK c \in Conns :
          \/ NS!Open(c) \/ NS!Recovered(c) \/ NS!NativeOpened(c)
          \/ NS!OpeningEvent(c) \/ NS!Drained(c) \/ NS!Abandon(c) \/ NS!Abandoned(c)
          \/ NS!Rested(c) \/ NS!LossError(c) \/ NS!RejectionError(c)
          \/ NS!PlainError(c) \/ NS!Arbitrated(c) \/ NS!NativeClosed(c)
          \/ (NS!BeginRead(c) /\ UNCHANGED recovery)
          \/ (NS!EndRead(c) /\ UNCHANGED recovery)
          \/ (NS!Collect(c) /\ UNCHANGED recovery)
          \/ (NS!PlatformTakes(c) /\ UNCHANGED recovery) \/ NS!Write(c)
          \/ NS!WriteCallback(c) \/ NS!Receive(c) \/ NS!Invalidate(c, "fault")
          \/ NS!Close(c) \/ NS!Released(c) \/ NS!Kept(c) \/ NS!ReleasedLate(c)
          \/ NS!CloseRested(c)
    BY <1>2 DEF NS!SerialNext, NS!Channel, NS!Progress
  <2>2. NodeHonours(c)
    BY <1>0, <2>1, NodeSilence1, NodeSilence2, NodeSilence3, NodeSilence4
  <2>3. \E s : NodeSerialGoes(c, s)
    BY <1>0, <2>1, NodeSerialStep1, NodeSerialStep2, NodeSerialStep3, NodeSerialStep4
  <2>4. \A d \in Conns \ {c} : conn'[d] = conn[d]
    BY <2>3 DEF NodeSerialGoes
  <2>5. PICK r, s, n : r = conn[c] /\ s = conn'[c] /\ n = recovery'
    OBVIOUS
  <2>6. NodeMoves(recovery, r, n, s) /\ NodeCalm(recovery, r)
    BY <1>0, <2>2, <2>5 DEF NodeHonours
  <2>7. \A d \in Conns \ {c} : NodeCalm(recovery, conn[d]) /\ (recovery = 0 \/ ~DoneWith(r) => conn[d].owed = 0)
    <3> SUFFICES ASSUME NEW d \in Conns \ {c}
                 PROVE  NodeCalm(recovery, conn[d]) /\ (recovery = 0 \/ ~DoneWith(r) => conn[d].owed = 0)
      OBVIOUS
    <3>1. PICK q : q = conn[d]
      OBVIOUS
    <3>2. NodeCalm(recovery, q) /\ q.owed \in Int
      BY <1>0, <3>1 DEF NodeSerialType
    <3>3. recovery = 0 => q.owed = 0
      BY <3>2 DEF NodeCalm
    <3>4. ~DoneWith(r) => DoneWith(q)
      BY <2>5, <3>1 DEF NodeQuiet
    <3>5. ~DoneWith(r) => q.owed = 0
      BY <3>2, <3>4, NodeDone
    <3> QED BY <3>1, <3>2, <3>3, <3>5
  <2>8. \A d \in Conns : Honours(conn[d], conn'[d])
    BY <2>4, <2>5, <2>6, HonoursSame DEF NodeMoves
  <2>9. \A d \in Conns : NodeOpens(d)
    <3>1. NodeOpens(c)
      <4> SUFFICES ASSUME r.place # "opening", s.place = "opening" PROVE \A d \in Conns : conn'[d].owed = 0
        BY <2>5 DEF NodeOpens
      <4>1. recovery = 0 \/ ~DoneWith(r)
        BY <2>6 DEF NodeMoves
      <4>2. \A d \in Conns \ {c} : conn'[d].owed = 0
        BY <2>4, <2>7, <4>1
      <4>3. s.owed = 0
        <5>1. NodeCalm(n, s)
          BY <2>6 DEF NodeMoves
        <5> QED BY <5>1 DEF NodeCalm
      <4> QED BY <2>5, <4>2, <4>3
    <3>2. \A d \in Conns \ {c} : NodeOpens(d)
      BY <2>4 DEF NodeOpens
    <3> QED BY <3>1, <3>2
  <2>10. ASSUME ~OutOfTurn PROVE NodeQuiet'
    <3>1. n \in Nat /\ NodeCalm(n, s)
      BY <2>6 DEF NodeMoves
    <3>2. \A d \in Conns \ {c} : NodeCalm(n, conn'[d])
      <4> SUFFICES ASSUME NEW d \in Conns \ {c} PROVE NodeCalm(n, conn'[d])
        OBVIOUS
      <4>1. PICK q : q = conn[d]
        OBVIOUS
      <4>2. NodeCalm(recovery, q) /\ (n >= recovery \/ q.owed = 0) /\ q.owed \in Int
        BY <1>0, <2>6, <2>7, <4>1 DEF NodeMoves, NodeSerialType
      <4>3. NodeCalm(n, q)
        BY <1>0, <3>1, <4>2, NodeShared
      <4> QED BY <2>4, <4>1, <4>3
    <3>3. \A d, e \in Conns \ {c} : d # e => DoneWith(conn'[d]) \/ DoneWith(conn'[e])
      BY <2>4 DEF NodeQuiet
    <3>4. \A d \in Conns \ {c} : DoneWith(s) \/ DoneWith(conn'[d])
      <4> SUFFICES ASSUME NEW d \in Conns \ {c} PROVE DoneWith(s) \/ DoneWith(conn[d])
        BY <2>4
      <4>1. DoneWith(r) \/ DoneWith(conn[d])
        BY <2>5 DEF NodeQuiet
      <4>2. CASE Opens(c)
        BY <2>10, <4>2 DEF OutOfTurn
      <4>3. CASE ~Opens(c)
        <5>1. DoneWith(r) => DoneWith(s)
          BY <2>5, <2>6, <4>3 DEF NodeMoves, Opens
        <5> QED BY <4>1, <5>1
      <4> QED BY <4>2, <4>3
    <3>5. \A d \in Conns : NodeCalm(n, conn'[d])
      BY <2>5, <3>1, <3>2
    <3>6. \A d, e \in Conns : d # e => DoneWith(conn'[d]) \/ DoneWith(conn'[e])
      BY <2>5, <3>3, <3>4
    <3> QED BY <2>5, <3>1, <3>5, <3>6 DEF NodeQuiet, DoneWith
  <2> QED BY <2>8, <2>9, <2>10
<1> QED BY <1>1, <1>2

\* What SilenceKept says of one connection.
SilenceStep(c) ==
    /\ Honours(conn[c], conn'[c])
    /\ kind = "node-serial" => NodeOpens(c)

\* Nothing is owed at first.
LEMMA SilenceStarts == Init => SilenceInv
<1> SUFFICES ASSUME Init PROVE SilenceInv
  OBVIOUS
<1>1. LinkInv
  BY LinkStarts
<1>2. ASSUME kind = "browser-serial" PROVE \A c \in Conns : BrowserCalm(conn[c])
  <2>1. PICK r : r = BS!With([pump |-> FALSE, release |-> "none"])
    OBVIOUS
  <2>2. r.place = "idle" /\ r.ended = NoEnding /\ r.owed = 0 /\ ~r.hostClosing
    BY <2>1, BrowserSerialFresh
  <2>3. BrowserCalm(r)
    BY <2>2, EndingAssumption DEF BrowserCalm, Imposed, Endings
  <2>4. \A c \in Conns : conn[c] = r
    BY <1>2, <2>1 DEF Init, Starts, BS!BrowserInit
  <2> QED BY <2>3, <2>4
<1>3. ASSUME kind = "node-serial" PROVE NodeQuiet
  <2>1. PICK r : r = NS!With([early |-> FALSE, arbitration |-> NS!Off])
    OBVIOUS
  <2>2. r.place = "idle" /\ r.ended = NoEnding /\ r.owed = 0 /\ r.closer = "none"
    BY <2>1, NodeSerialFresh
  <2>3. NodeCalm(0, r) /\ DoneWith(r)
    BY <2>2 DEF NodeCalm, DoneWith
  <2>4. recovery = 0 /\ \A c \in Conns : conn[c] = r
    BY <1>3, <2>1 DEF Init, Starts, NS!SerialInit, NS!Off
  <2> QED BY <2>3, <2>4 DEF NodeQuiet
<1> QED BY <1>1, <1>2, <1>3 DEF SilenceInv

\* Every step keeps the invariant and the silence.
LEMMA SilenceStep1 ==
    ASSUME SilenceInv, [Next]_vars
    PROVE  /\ SilenceInv'
           /\ kind \in {"node-serial", "browser-serial"} /\ ~overlap => \A c \in Conns : SilenceStep(c)
<1>1. LinkInv /\ LinkInv'
  BY LinkStep1 DEF SilenceInv
<1>2. CASE NodeSerialStep /\ Observed
  <2>1. kind = "node-serial" /\ kind' = "node-serial" /\ NS!SerialNext
    BY <1>2 DEF NodeSerialStep
  <2>2. ~overlap => NodeQuiet
    BY <2>1 DEF SilenceInv
  <2>3. DOMAIN conn = Conns /\ \A c \in Conns : NodeSerialRecord(conn[c])
    BY <1>1, <2>1 DEF LinkInv
  <2>4. ~overlap => /\ \A c \in Conns : Honours(conn[c], conn'[c]) /\ NodeOpens(c)
                    /\ ~OutOfTurn => NodeQuiet'
    BY <2>1, <2>2, <2>3, NodeSilent
  <2>5. ~overlap' => ~overlap /\ ~OutOfTurn
    BY <1>2, <2>1 DEF Observed
  <2>6. SilenceInv'
    BY <1>1, <2>1, <2>4, <2>5 DEF SilenceInv
  <2> QED BY <2>4, <2>6 DEF SilenceStep
<1>3. CASE BrowserSerialStep
  <2>1. kind = "browser-serial" /\ kind' = "browser-serial" /\ BS!BrowserNext
    BY <1>3 DEF BrowserSerialStep
  <2>2. DOMAIN conn = Conns /\ \A c \in Conns : BrowserSerialRecord(conn[c]) /\ BrowserCalm(conn[c])
    BY <1>1, <2>1 DEF LinkInv, SilenceInv
  <2>3. \A c \in Conns : BrowserHonours(c)
    BY <2>1, <2>2, BrowserSilent
  <2>4. SilenceInv'
    BY <1>1, <2>1, <2>3 DEF SilenceInv, BrowserHonours
  <2> QED BY <2>1, <2>3, <2>4 DEF SilenceStep, BrowserHonours
<1>4. CASE NodeUsbStep \/ BrowserUsbStep
  <2>1. kind' = kind /\ kind \in {"node-usb", "browser-usb"}
    BY <1>4 DEF NodeUsbStep, BrowserUsbStep
  <2> QED BY <1>1, <2>1 DEF SilenceInv
<1>5. CASE OpeningStep \/ LeasesStep
  <2>1. kind' = kind /\ kind \in {"opening", "leases"}
    BY <1>5 DEF OpeningStep, LeasesStep
  <2> QED BY <1>1, <2>1 DEF SilenceInv
<1>6. CASE UNCHANGED vars
  <2>1. UNCHANGED <<conn, recovery, kind, overlap>>
    BY <1>6 DEF vars, link
  <2>2. SilenceInv'
    BY <1>1, <2>1 DEF SilenceInv, NodeQuiet
  <2> QED BY <2>1, <2>2, HonoursSame DEF SilenceStep, NodeOpens
<1> QED BY <1>2, <1>3, <1>4, <1>5, <1>6 DEF Next, LinkStep

\* SilenceKept: however the calls of open() and close(), the endings and the
\* platform's answers interleave, close() and an open() that gives up answer only
\* when the silence after an ending has passed, a handle that an imposed ending kept
\* is let go only then, and no native open of a Node path begins before (as long as
\* the session opens a path only when it is done with the connection before).
THEOREM TransportsKeepSilence == Spec => SilenceKept
<1>1. Init => SilenceInv
  BY SilenceStarts
<1>2. SilenceInv /\ [Next]_vars
        => /\ SilenceInv'
           /\ [\A c \in Conns :
                 LET before == conn[c] after == conn'[c]
                     imposed == before.ended \in {"receive-overflow", "fault"} /\ ~before.hostClosing
                 IN kind \in {"node-serial", "browser-serial"} /\ ~overlap =>
                      /\ before.closer # "answered" /\ after.closer = "answered" => after.owed = 0
                      /\ before.place = "resting" /\ after.place = "failed" => after.owed = 0
                      /\ before.fd = "open" /\ after.fd = "closing" /\ imposed => before.owed = 0
                      /\ kind = "node-serial" /\ before.place # "opening" /\ after.place = "opening"
                           => \A d \in Conns : conn'[d].owed = 0]_vars
  BY SilenceStep1 DEF SilenceStep, Honours, Imposed, NodeOpens
<1> QED BY <1>1, <1>2, PTL DEF Spec, SilenceKept
=============================================================================
