------------------------------ MODULE MCRoomV4 ------------------------------
(***************************************************************************)
(* A room of three slots: a and b open it, c may join.  Its contracts are  *)
(* a token (tok) and a pool that holds four tokens against the shares of b *)
(* and one locked share, so that a residual is left.                       *)
(***************************************************************************)
EXTENDS RoomV4

CONSTANTS a, b, c, tok, pool, lib, member, nothing, noCode, noSelector, never, zero

People == {a, b, c}
MCAddr == People \cup {tok, pool, lib}
Words == {<<"bal", m>> : m \in People \cup {pool}} \cup {<<"share", m>> : m \in People \cup {pool}}
           \cup {<<"supply">>, <<"config">>, <<"shares">>, <<"reserve">>, <<"guard">>,
                 <<"domain">>}
MCSlot == Words
MCPrecompiles == {}
MCMaxU256 == 15
MCHeirs == {0, 1}
MCCodeBytes == [tok |-> 2, pool |-> 2, small |-> 2, large |-> 3]

Holding(slots) == [s \in Words |-> IF s \in DOMAIN slots THEN slots[s] ELSE 0]
Person(n) == [balance |-> n, nonce |-> 1, code |-> noCode, storage |-> Holding(<<>>)]

Token(config) ==
    [balance |-> 0, nonce |-> 1, code |-> "tok",
     storage |-> Holding(<<"bal", a>> :> 1 @@ <<"bal", b>> :> 1 @@ <<"bal", pool>> :> 4
                           @@ <<"supply">> :> 6 @@ <<"config">> :> config)]
Pool(domain) ==
    [balance |-> 0, nonce |-> 1, code |-> "pool",
     storage |-> Holding(<<"share", pool>> :> 1 @@ <<"share", b>> :> 2 @@ <<"shares">> :> 3
                           @@ <<"reserve">> :> 4 @@ <<"domain">> :> domain)]

Whole == [x \in MCAddr |-> IF x \in {tok, pool} THEN Words ELSE {}]
MCEnvelope == Whole
Narrow == [Whole EXCEPT ![tok] = Words \ {<<"bal", c>>}]

(***************************************************************************)
(* Presets and openings.                                                   *)
(***************************************************************************)

Program(id) ==
    [assets |-> <<[id |-> 0, kind |-> "native"],
                  [id |-> id, kind |-> "erc20", token |-> tok, balance |-> <<"bal">>,
                   supply |-> <<"supply">>]>>,
     positions |-> <<[contract |-> pool, shares |-> <<"share">>, supply |-> <<"shares">>,
                      excluded |-> {pool}, backings |-> id :> <<"reserve">>]>>]

CertifiedPreset ==
    [level |-> "certified", assets |-> <<0, 1>>, maxBlocks |-> 2, maxGas |-> 2, maxTxs |-> 1,
     maxMemory |-> 2, maxAccounts |-> 6, maxSlots |-> 40, maxWitness |-> 39,
     code |-> tok :> <<"tok">> @@ pool :> <<"pool">>,
     domains |-> {[contract |-> pool, slot |-> <<"domain">>]},
     rules |-> {[caller |-> member, target |-> tok, selectors |-> {"send"}, kinds |-> {"call"}],
                [caller |-> member, target |-> pool, selectors |-> {"play"},
                 kinds |-> {"call"}]},
     arguments |-> {[target |-> tok, selector |-> "send", words |-> {1}]},
     guards |-> {[contract |-> pool, slot |-> <<"guard">>, offset |-> 0, width |-> 1,
                  values |-> {0}]},
     storage |-> {[contract |-> x, slots |-> Words, writable |-> TRUE] : x \in {tok, pool}},
     creation |-> FALSE, selfDestruct |-> FALSE, program |-> Program(1)]

GenericPreset ==
    [CertifiedPreset EXCEPT !.level = "generic", !.code = <<>>, !.domains = {}, !.rules = {},
                            !.maxMemory = 1,
                            !.arguments = {}, !.guards = {}, !.storage = {}]

\* Contracts may be created, and the entry points of the others need arguments
\* that no transaction has.
CreatorPreset ==
    [CertifiedPreset EXCEPT !.level = "generic", !.creation = TRUE, !.guards = {},
       !.arguments = {[target |-> tok, selector |-> "send", words |-> {2}],
                      [target |-> pool, selector |-> "play", words |-> {1}]}]

MCRoster ==
    [s \in 0..2 |-> IF s = 2 THEN [state |-> "unused", account |-> zero, joined |-> 0,
                                   retired |-> never]
                    ELSE [state |-> "active", account |-> IF s = 0 THEN a ELSE b,
                          joined |-> 0, retired |-> never]]

Opening(preset, config, domain) ==
    [preset |-> preset, program |-> preset.program, roster |-> MCRoster,
     cursor |-> 0, envelope |-> Whole, totals |-> 0 :> 1 @@ 1 :> 6,
     residuals |-> <<1, 1>> :> 1,
     anchor |-> [root |-> "r", number |-> 1, deadline |-> 2,
                 header |-> [root |-> "r", number |-> 1]],
     accounts |-> b :> Person(1) @@ tok :> Token(config) @@ pool :> Pool(domain)]

Good == Opening(CertifiedPreset, 1, 1)

\* Its token is asset 16, which the preset does not list.
Wide == [Opening([GenericPreset EXCEPT !.assets = <<0>>, !.program = Program(16)], 1, 1)
           EXCEPT !.totals = 0 :> 1 @@ 16 :> 6, !.residuals = <<1, 16>> :> 1]
MCOpenings ==
    {Good, Wide, Opening(GenericPreset, 1, 1), Opening(CreatorPreset, 1, 1), Opening(CertifiedPreset, 1, 2),
     [Good EXCEPT !.totals = 0 :> 1 @@ 1 :> 5], [Good EXCEPT !.residuals = <<>>],
     [Good EXCEPT !.anchor.number = 2]}

(***************************************************************************)
(* Transactions, batches and requests.                                     *)
(***************************************************************************)

Plain == [from |-> a, to |-> pool, selector |-> "play", args |-> <<>>, calls |-> {},
          creates |-> {}, destroys |-> {}, runtime |-> <<>>, memory |-> 1, gas |-> 1,
          value |-> <<>>, writes |-> <<>>]
Send(x, y) == [Plain EXCEPT !.from = x, !.to = tok, !.selector = "send", !.args = <<y>>,
                 !.writes = <<tok, <<"bal", x>>>> :> -1 @@ <<tok, <<"bal", y>>>> :> 1]
Add == [Plain EXCEPT !.writes = <<tok, <<"bal", a>>>> :> -1 @@ <<tok, <<"bal", pool>>>> :> 1
                                  @@ <<pool, <<"reserve">>>> :> 1]
Leak == [Plain EXCEPT !.writes = <<tok, <<"bal", b>>>> :> -1 @@ <<tok, <<"bal", pool>>>> :> 1]
Play == [Send(a, b) EXCEPT !.writes = @ @@ <<pool, <<"guard">>>> :> 1
                                        @@ <<tok, <<"config">>>> :> 1]
Rebind == [Plain EXCEPT !.memory = 2, !.writes = <<pool, <<"domain">>>> :> 1]
Deploy(code) == [Plain EXCEPT !.to = nothing, !.creates = {lib}, !.runtime = lib :> code]
Gift == [Send(b, c) EXCEPT !.value = b :> -1 @@ a :> 1]

Create == [Plain EXCEPT !.from = c, !.to = nothing, !.creates = {tok, pool},
             !.runtime = tok :> "tok" @@ pool :> "pool",
             !.writes = <<tok, <<"config">>>> :> 1]

Two(t, txs) == [blocks |-> <<[time |-> t, txs |-> <<>>], [time |-> t, txs |-> txs]>>,
                close |-> FALSE, envelope |-> Whole]
One(close) == [blocks |-> <<[time |-> 1, txs |-> <<Send(b, a)>>]>>, close |-> close,
               envelope |-> Whole]

AllBodies ==
    {Two(0, <<>>), Two(1, <<Play>>), Two(0, <<Gift>>), Two(0, <<Add>>), Two(0, <<Leak>>),
     Two(0, <<Rebind>>), Two(0, <<Deploy("small")>>), Two(0, <<Deploy("large")>>),
     [Two(0, <<>>) EXCEPT !.envelope = Narrow], One(TRUE), One(FALSE)}
MCBodies == AllBodies

Activate(s, m, join) == [action |-> "activate", slot |-> s, member |-> m, join |-> join,
                         expiry |-> 1]
Retire(s, m) == [action |-> "retire", slot |-> s, member |-> m, join |-> 0, expiry |-> 0]

MCDeltas == {<<>>, 0 :> Retire(0, a), 2 :> Activate(2, c, 1), 2 :> Activate(2, c, 2),
             2 :> Activate(2, a, 1), 0 :> Activate(0, c, 1),
             0 :> Retire(0, a) @@ 2 :> Activate(2, c, 1)}

Request(kind, slot, m, id, n) == [kind |-> kind, slot |-> slot, account |-> m,
                                  deposits |-> <<[asset |-> id, amount |-> n]>>]

\* Two deposits of a overflow the supply of the token.
MCRequests == {Request("deposit", 0, a, 1, 5), Request("join", 99, c, 1, 1),
               Request("join", 99, a, 0, 1)}

(***************************************************************************)
(* Templates: the setup of the token and the pool, and one that creates    *)
(* nothing.                                                                *)
(***************************************************************************)

Refresh(slots) == [nonce |-> FALSE, balance |-> FALSE, all |-> FALSE, slots |-> slots]
Setup == [preset |-> GenericPreset, initial |-> <<>>,
          blocks |-> <<[time |-> 0, txs |-> <<Create>>]>>,
          runtime |-> tok :> <<"tok">> @@ pool :> <<"pool">>,
          access |-> tok :> Words @@ pool :> Words,
          refresh |-> tok :> Refresh(Words \ {<<"config">>}) @@ pool :> Refresh(Words)]
MCColdInputs == {Setup, [Setup EXCEPT !.blocks = <<[time |-> 0, txs |-> <<Gift>>]>>]}

=============================================================================
