----------------------------- MODULE RoomRoster -----------------------------
(***************************************************************************)
(* The checkpoint approvers of a unanimous v5 room (room_v5/roster.rs): a  *)
(* roster is a function from occupied positions to members, L1 keeps the   *)
(* root of its positional tree, and a batch applies a range of the changes *)
(* queued on L1.                                                           *)
(***************************************************************************)
EXTENDS PositionalTrees, Functions

CONSTANTS
    Accounts,    \* accounts that may become approvers
    Capacities   \* powers of two up to MAX_POSITIONAL_CAPACITY_V5

ASSUME CapacityAssumption == \A c \in Capacities : c \in Nat \ {0} /\ PowerOfTwo(c)

\* roster_root_v5 accepts the preimage.
RosterPreimage(list, capacity) ==
    PositionsOk(list, capacity, Capacities) /\ \A k \in DOMAIN list : list[k].joined # 0

\* The map active_roster_map_v5 builds; two positions may not share an account.
RosterMap(list) ==
    [i \in {list[k].index : k \in DOMAIN list} |->
       LET k == CHOOSE j \in DOMAIN list : list[j].index = i
       IN [member |-> list[k].member, joined |-> list[k].joined]]

MembersOf(roster) == {roster[i].member : i \in DOMAIN roster}

Unique(roster) ==
    \A i, j \in DOMAIN roster : roster[i].member = roster[j].member => i = j

\* active_roster_map_v5 returns a map.
ActiveRosterOk(list, capacity, root) ==
    /\ RosterPreimage(list, capacity)
    /\ RosterRoot(list, capacity) = root
    /\ Unique(RosterMap(list))

\* The add arm: its member is new, its position is free and it joins in the
\* epoch this batch opens.
AddOk(expected, change, epoch) ==
    /\ change.joined = epoch
    /\ change.member \notin MembersOf(expected)
    /\ change.index \notin DOMAIN expected

\* The remove arm: it names the occupant, and this batch pays the occupant what
\* the request committed to.  Withdrawals have one entry per index.
RemoveOk(expected, change, epoch, outboxEpoch, withdrawals) ==
    /\ change.index \in DOMAIN expected
    /\ expected[change.index] = [member |-> change.member, joined |-> change.joined]
    /\ \E w \in withdrawals :
         /\ w.index = change.index /\ w.recipient = change.member /\ w.epoch = epoch
         /\ WithdrawalLeaf(outboxEpoch, w) = change.commitment

Added(expected, change) ==
    [i \in DOMAIN expected \cup {change.index} |->
       IF i = change.index THEN [member |-> change.member, joined |-> change.joined]
       ELSE expected[i]]

Removed(expected, change) == Restrict(expected, DOMAIN expected \ {change.index})

\* One step of the loop over roster_changes.
ChangeOk(expected, change, epoch, outboxEpoch, withdrawals) ==
    \/ change.action = "add" /\ AddOk(expected, change, epoch)
    \/ change.action = "remove"
         /\ RemoveOk(expected, change, epoch, outboxEpoch, withdrawals)

Changed(expected, change) ==
    IF change.action = "add" THEN Added(expected, change) ELSE Removed(expected, change)

=============================================================================
