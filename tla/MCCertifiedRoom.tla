-------------------------- MODULE MCCertifiedRoom --------------------------
(***************************************************************************)
(* A room with an application (app) and a participant registry (reg).  The *)
(* state has one slot more to fill than a witness may declare, and one     *)
(* account more.                                                           *)
(***************************************************************************)
EXTENDS CertifiedRoom, TLC

CONSTANTS a, b, c, app, reg, new, pre, member, nothing, noCode, noSelector

MCAddr == {a, b, app, reg, new, pre}
MCSlot == {"w", "r", "x", "m", "c"} \cup RegistrySlots
MCPrecompiles == {pre}
MCAccounts == {a, b, c}
MCCapacities == {2, 4}
MCGoodCapacity == {2}
MCCreditAt == <<app, "c">>

Holding(slots) == [s \in MCSlot |-> IF s \in DOMAIN slots THEN slots[s] ELSE 0]

MCGenesis ==
    app :> [live |-> TRUE, code |-> "app", storage |-> Holding("r" :> 1)]
    @@ reg :> [live |-> TRUE, code |-> "reg",
               storage |-> Holding("root" :> 1 @@ "epoch" :> 1 @@ "capacity" :> 2)]
    @@ a :> [live |-> TRUE, code |-> noCode, storage |-> Holding(<<>>)]

MCFirstRoster == <<[index |-> 0, member |-> a, joined |-> 1]>>

(***************************************************************************)
(* Policies.  The first admits everything the room needs; the others ask   *)
(* for imports that from_v5 has to refuse.                                 *)
(***************************************************************************)

Good == [commitment |-> 0, maxBlocks |-> 2, maxTxs |-> 2, maxGas |-> 2, maxMemory |-> 1,
         creation |-> FALSE, selfDestruct |-> FALSE,
         code |-> app :> <<"app">> @@ reg :> <<"reg">>,
         rules |-> {[caller |-> member, target |-> app, selectors |-> {"act"},
                     kinds |-> {"call"}],
                    [caller |-> app, target |-> reg, selectors |-> {"join"},
                     kinds |-> {"call", "static"}]},
         storage |-> {[contract |-> app, slots |-> {"w", "m"}, writable |-> TRUE],
                      [contract |-> app, slots |-> {"r", "c"}, writable |-> FALSE],
                      [contract |-> reg, slots |-> RegistrySlots, writable |-> TRUE]},
         imports |-> {[contract |-> app, slot |-> "m"]},
         registry |-> reg,
         exit |-> nothing]

Sparse == [Good EXCEPT !.commitment = 1, !.imports = {}]
ReadOnlyImport == [Good EXCEPT !.imports = {[contract |-> app, slot |-> "r"]}]
RegistryImport == [Good EXCEPT !.imports = {[contract |-> reg, slot |-> "count"]}]
MCPolicies == {Good, Sparse, ReadOnlyImport, RegistryImport}
MCModes == [p \in MCPolicies |-> IF p = Sparse THEN {0} ELSE {1}]

(***************************************************************************)
(* Transactions and bodies.                                                *)
(***************************************************************************)

Plain == [from |-> a, to |-> app, selector |-> "act", calls |-> {}, creates |-> {},
          destroys |-> {}, runtime |-> "new", memory |-> 1, gas |-> 1, reads |-> {},
          writes |-> <<>>, reverts |-> FALSE]

Writes(slot, v) == [Plain EXCEPT !.writes = app :> (slot :> v)]
Calls(target, kind, selector) ==
    [Plain EXCEPT !.calls = {[caller |-> app, target |-> target, kind |-> kind,
                              selector |-> selector]}]
Registry(slot, v) == [Calls(reg, "call", "join") EXCEPT !.writes = reg :> (slot :> v)]

Txs == {Writes("w", 1), Writes("w", 0), Writes("r", 0), Writes("x", 1),
        Registry("count", 1), Registry("count", 3), Registry("capacity", 4),
        [Plain EXCEPT !.from = b], [Plain EXCEPT !.reads = {<<app, "x">>}],
        [Plain EXCEPT !.to = nothing, !.creates = {new}], [Plain EXCEPT !.creates = {new}],
        [Plain EXCEPT !.creates = {new}, !.reverts = TRUE],
        [Plain EXCEPT !.creates = {new}, !.destroys = {new}],
        [Plain EXCEPT !.to = reg, !.selector = "join"], [Plain EXCEPT !.selector = noSelector],
        Calls(pre, "static", noSelector), Calls(pre, "delegate", noSelector),
        Calls(reg, "callcode", "join"), Calls(reg, "delegate", "join"),
        [Plain EXCEPT !.memory = 2], [Plain EXCEPT !.gas = 3]}

Block(time, txs) == [time |-> time, txs |-> txs]

Everything ==
    {<<Block(1, <<Plain>>)>>} \cup {<<Block(1, <<t>>), Block(1, <<>>)>> : t \in Txs}
    \cup {<<Block(1, <<t>>), Block(2, <<u>>)>> :
            t \in {Writes("w", 1), Writes("r", 0)},
            u \in {Registry("count", 1), Writes("r", 1)}}
    \cup {<<Block(2, <<Plain>>), Block(1, <<Plain>>)>>,
          <<Block(1, <<Plain, Plain>>), Block(1, <<>>)>>,
          <<Block(1, <<Plain, Plain, Plain>>), Block(1, <<>>)>>}

MCBodies == [p \in MCPolicies |->
    CASE p = Good -> Everything
      [] p = Sparse -> {<<Block(1, <<Plain>>), Block(1, <<>>)>>,
                        <<Block(1, <<[Plain EXCEPT !.from = b]>>), Block(1, <<>>)>>}
      [] OTHER -> {<<Block(1, <<Plain>>), Block(1, <<>>)>>}]

MCEnvelopes ==
    {<<>>, pre :> {}, new :> {} @@ app :> {"w", "x"}, b :> {} @@ app :> {"w", "m", "c"},
     app :> {"w"} @@ reg :> {"count"}}

Request(action, index, m, joined) ==
    [action |-> action, index |-> index, member |-> m, joined |-> joined]

MCRequests ==
    {Request("add", 1, b, 2), Request("add", 1, a, 2), Request("add", 2, c, 3),
     Request("add", 1, b, 3), Request("remove", 0, a, 1), Request("remove", 1, b, 2)}

============================================================================
