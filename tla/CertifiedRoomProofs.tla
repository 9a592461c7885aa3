------------------------ MODULE CertifiedRoomProofs ------------------------
(***************************************************************************)
(* Proofs about CertifiedRoom for every policy, roster, body and bound:    *)
(* the roots bind the guest to the state and the approvers that the last   *)
(* batch left, what a policy does not make writable never changes, the     *)
(* roster is the replay of the queue, and an accepted batch leaves a room  *)
(* that opens again.                                                       *)
(***************************************************************************)
EXTENDS CertifiedRoom, TLAPS

\* Leaves that name no prover are for Zenon.
USE Zenon

(***************************************************************************)
(* Lists and records.                                                      *)
(***************************************************************************)

\* The length, the domain and the elements of a sequence.
LEMMA SeqFacts ==
    ASSUME NEW S, NEW s \in Seq(S)
    PROVE  /\ Len(s) \in Nat /\ DOMAIN s = 1..Len(s)
           /\ s \in [1..Len(s) -> S]
BY SMT

\* A function on the first numbers is a sequence.
LEMMA SeqOf ==
    ASSUME NEW S, NEW n \in Nat, NEW f \in [1..n -> S]
    PROVE  f \in Seq(S)
BY SMT

\* Appending one element.
LEMMA SeqAppend ==
    ASSUME NEW S, NEW s \in Seq(S), NEW x \in S
    PROVE  /\ Append(s, x) \in Seq(S) /\ Len(Append(s, x)) = Len(s) + 1
           /\ Append(s, x)[Len(s) + 1] = x
           /\ \A i \in 1..Len(s) : Append(s, x)[i] = s[i]
BY SMT

\* The length of a list.
LEMMA FnLen ==
    ASSUME NEW n \in Nat, NEW f, DOMAIN f = 1..n, f = [k \in 1..n |-> f[k]]
    PROVE  Len(f) = n
<1> DEFINE R == {f[k] : k \in 1..n}
<1>1. f \in [1..n -> R]
  OBVIOUS
<1>2. f \in Seq(R)
  BY <1>1, SeqOf
<1>3. Len(f) \in Nat /\ DOMAIN f = 1..Len(f)
  BY <1>2, SeqFacts
<1> QED
  BY <1>3, SMT

\* A list of the numbers 1..n.
ListOf(f, n) == DOMAIN f = 1..n /\ f = [k \in 1..n |-> f[k]]

\* Two queues have the same first requests.
Alike(q, p, n) == \A k \in 1..n : q[k] = p[k]

\* A queue with one request more.
LEMMA QueueGrows ==
    ASSUME NEW q, Len(q) \in Nat, ListOf(q, Len(q)), NEW x, NEW p, p = Append(q, x)
    PROVE  /\ Len(p) = Len(q) + 1 /\ ListOf(p, Len(p)) /\ p[Len(q) + 1] = x
           /\ Alike(q, p, Len(q))
<1> DEFINE R == {q[k] : k \in 1..Len(q)} \cup {x}
<1>1. q \in [1..Len(q) -> R] /\ x \in R
  BY DEF ListOf
<1>2. q \in Seq(R)
  BY <1>1, SeqOf
<1> HIDE DEF R
<1>3. /\ p \in Seq(R) /\ Len(p) = Len(q) + 1 /\ p[Len(q) + 1] = x
      /\ \A i \in 1..Len(q) : p[i] = q[i]
  <2>1. Append(q, x) \in Seq(R) /\ Len(Append(q, x)) = Len(q) + 1
    BY <1>1, <1>2, SeqAppend
  <2>2. Append(q, x)[Len(q) + 1] = x
    BY <1>1, <1>2, SeqAppend
  <2>3. \A i \in 1..Len(q) : Append(q, x)[i] = q[i]
    BY <1>1, <1>2, SeqAppend, SMT
  <2> QED
    BY <2>1, <2>2, <2>3
<1>4. Len(p) \in Nat /\ DOMAIN p = 1..Len(p) /\ p \in [1..Len(p) -> R]
  BY <1>3, SeqFacts
<1>5. ListOf(p, Len(p))
  BY <1>4 DEF ListOf
<1> QED
  BY <1>3, <1>5 DEF Alike

\* The numbers of an interval from zero, and those above zero.
LEMMA FromZero ==
    ASSUME NEW n \in Nat, NEW x \in 0..n
    PROVE  x \in Nat /\ (x > 0 => x \in 1..n)
BY SMT

\* A number that is no larger stays so.
LEMMA NoLarger ==
    ASSUME NEW a \in Nat, NEW b \in Nat
    PROVE  \A x \in Nat : x <= a => x <= a + 0 /\ x <= a + 1
BY SMT

\* The next request of a range.
LEMMA NextRequest ==
    ASSUME NEW c \in Nat, NEW m \in Nat, NEW n \in Nat, NEW len \in Nat, n < m, c + m <= len
    PROVE  /\ n + 1 \in 1..m /\ c + (n + 1) = (c + n) + 1 /\ c + n \in Nat
           /\ c + (n + 1) \in 1..len /\ n + 1 \in 0..m
           /\ \A k \in 1..(n + 1) : k \in 1..n \/ k = n + 1
BY SMT

\* A request up to the new cursor is behind the old one or in the range.
LEMMA InRange ==
    ASSUME NEW c \in Nat, NEW m \in Nat, NEW len \in Nat, c + m <= len
    PROVE  /\ c + m \in 0..len
           /\ \A k \in 1..(c + m) : k \in 1..c \/ (k - c \in 1..m /\ c + (k - c) = k)
BY SMT

\* The fields of a room, of a job at its start and of a job in its blocks.
RoomFields == {"mode", "batch", "closed", "root", "participants", "rosterRoot", "epoch",
               "cursor", "imports"}

StartedFields == {"pc", "body", "close", "callers", "opening", "expected", "changes",
                  "applied", "paid", "capacity"}

OpenedFields == {"pc", "body", "close", "callers", "opening", "expected", "changes", "paid",
                 "capacity", "import", "opened", "snapshot", "state", "block", "tx", "gas",
                 "ran"}

\* A job at its start.
Starts(j, body, callers, expected, changes, paid, capacity) ==
    /\ j.pc = "roster" /\ j.body = body /\ j.callers = callers /\ j.opening = expected
    /\ j.expected = expected /\ j.changes = changes /\ j.applied = 0 /\ j.paid = paid
    /\ j.capacity = capacity

\* The record of a job at its start.
LEMMA StartedRecord ==
    ASSUME NEW j, NEW body, NEW close, NEW callers, NEW expected, NEW changes, NEW paid,
           NEW capacity,
           j = [pc |-> "roster", body |-> body, close |-> close,
                callers |-> callers, opening |-> expected, expected |-> expected,
                changes |-> changes, applied |-> 0, paid |-> paid, capacity |-> capacity]
    PROVE  Starts(j, body, callers, expected, changes, paid, capacity)
BY SMT DEF Starts

\* A job carries on with its batch.
SameBatch(j, i) ==
    /\ j.body = i.body /\ j.callers = i.callers /\ j.opening = i.opening
    /\ j.expected = i.expected /\ j.changes = i.changes /\ j.paid = i.paid
    /\ j.capacity = i.capacity

\* A job after a change.
Advances(j, i, expected, applied) ==
    /\ j.pc = i.pc /\ j.body = i.body /\ j.callers = i.callers /\ j.opening = i.opening
    /\ j.expected = expected /\ j.changes = i.changes /\ j.applied = applied /\ j.paid = i.paid
    /\ j.capacity = i.capacity

\* The record after a change.
LEMMA AppliedRecord ==
    ASSUME NEW i, DOMAIN i = StartedFields, NEW e, NEW n,
           NEW j, j = [i EXCEPT !.expected = e, !.applied = n]
    PROVE  Advances(j, i, e, n)
BY SMT DEF StartedFields, Advances

\* The record at the opening of the state.
LEMMA OpenedRecord ==
    ASSUME NEW i, NEW import, NEW opened, NEW snapshot, NEW state,
           NEW j, j = [pc |-> "blocks", body |-> i.body, close |-> i.close,
                       callers |-> i.callers, opening |-> i.opening,
                       expected |-> i.expected, changes |-> i.changes,
                       paid |-> i.paid, capacity |-> i.capacity,
                       import |-> import, opened |-> opened, snapshot |-> snapshot,
                       state |-> state, block |-> 0, tx |-> 0, gas |-> 0, ran |-> {}]
    PROVE  SameBatch(j, i) /\ j.pc = "blocks" /\ j.block = 0 /\ j.tx = 0 /\ j.ran = {}
BY SMT DEF SameBatch

\* A job in its blocks.
Proceeds(j, i, block, tx, ran) ==
    SameBatch(j, i) /\ j.pc = i.pc /\ j.block = block /\ j.tx = tx /\ j.ran = ran

\* The record in a block.
LEMMA EnteredRecord ==
    ASSUME NEW i, DOMAIN i = OpenedFields, NEW n,
           NEW j, j = [i EXCEPT !.block = n, !.tx = 0, !.gas = 0]
    PROVE  Proceeds(j, i, n, 0, i.ran)
BY SMT DEF SameBatch, OpenedFields, Proceeds

\* The record after a transaction.
LEMMA ExecutedRecord ==
    ASSUME NEW i, DOMAIN i = OpenedFields, NEW s, NEW n, NEW g, NEW r,
           NEW j, j = [i EXCEPT !.state = s, !.tx = n, !.gas = g, !.ran = r]
    PROVE  Proceeds(j, i, i.block, n, r)
BY SMT DEF SameBatch, OpenedFields, Proceeds

\* A room moves to another roster, epoch and cursor.
Moves(s, rm, roots, epoch, cursor) ==
    s.mode = rm.mode /\ s.rosterRoot = roots /\ s.epoch = epoch /\ s.cursor = cursor

\* The record of a room after a batch.
LEMMA AcceptedRecord ==
    ASSUME NEW rm, DOMAIN rm = RoomFields, NEW b, NEW c, NEW root, NEW p, NEW roots, NEW e,
           NEW n, NEW im,
           NEW s, s = [rm EXCEPT !.batch = b, !.closed = c, !.root = root, !.participants = p,
                                 !.rosterRoot = roots, !.epoch = e, !.cursor = n, !.imports = im]
    PROVE  Moves(s, rm, roots, e, n)
BY SMT DEF RoomFields, Moves

\* The request that L1 queues.
LEMMA RequestRecord ==
    ASSUME NEW n, NEW a, NEW i, NEW m, NEW j, NEW c, NEW x,
           x = [id |-> n, action |-> a, index |-> i, member |-> m, joined |-> j, commitment |-> c]
    PROVE  x.id = n /\ x.index = i /\ x.joined = j
BY SMT

\* A room at its creation.
LEMMA CreatedRecord ==
    ASSUME NEW mode, NEW root, NEW participants, NEW roots, NEW x,
           x = [mode |-> mode, batch |-> 0, closed |-> FALSE, root |-> root,
                participants |-> participants, rosterRoot |-> roots,
                epoch |-> 1, cursor |-> 0, imports |-> 0]
    PROVE  x.mode = mode /\ x.epoch = 1 /\ x.cursor = 0 /\ x.rosterRoot = roots
BY SMT

(***************************************************************************)
(* Accounts.                                                               *)
(***************************************************************************)

\* No account of a compact witness is blank.
Solid(accounts) == \A a \in DOMAIN accounts : accounts[a].live \/ accounts[a].code # NoCode

\* A policy names one of the two layouts of a root.
LEMMA Layout ==
    ASSUME NEW p, Bounded(p)
    PROVE  p.commitment \in {0, 1}
BY DEF Bounded

\* What both layouts of a root hash.
LeavesOf(accounts) ==
    [a \in DOMAIN accounts |->
       <<accounts[a].live, accounts[a].storage, CodeHash(accounts[a])>>]

\* The root of these accounts.
RootOf(accounts, mode) ==
    IF mode = 0 THEN <<"mpt", LeavesOf(accounts)>>
    ELSE <<"sparse", Cardinality(DOMAIN accounts), LeavesOf(accounts)>>

\* The binding of an analysed runtime never changes the root, and no account is
\* left out of it.
LEMMA RootHashes ==
    ASSUME NEW state, AccountsOK(state.accounts), NEW mode, mode \in {0, 1}
    PROVE  RoomStateRoot(state, mode) = RootOf(state.accounts, mode)
<1> DEFINE A == state.accounts
           served == [a \in DOMAIN A |-> ServedCode(state, a)]
           hashed == [a \in DOMAIN A |-> CodeHash(A[a])]
<1>1. \A a \in DOMAIN A : ServedCode(state, a) = CodeHash(A[a])
  BY DEF ServedCode
<1>2. served = hashed
  BY <1>1
<1>3. {a \in DOMAIN A : ~IsEmpty(A[a])} = DOMAIN A
  BY DEF AccountsOK
<1>4. \A a \in DOMAIN A : hashed[a] = CodeHash(A[a])
  OBVIOUS
<1>5. Leaves(state, hashed) = LeavesOf(A)
  <2> HIDE DEF hashed
  <2>1. Leaves(state, hashed) = [a \in DOMAIN A |-> <<A[a].live, A[a].storage, hashed[a]>>]
    BY <1>3 DEF Leaves
  <2> QED
    BY <1>4, <2>1 DEF LeavesOf
<1>6. DOMAIN LeavesOf(A) = DOMAIN A
  BY DEF LeavesOf
<1>7. MptRoot(state) = <<"mpt", LeavesOf(A)>>
  BY <1>2, <1>5 DEF MptRoot
<1>8. SparseRoot(state) = <<"sparse", Cardinality(DOMAIN A), LeavesOf(A)>>
  BY <1>5, <1>6 DEF SparseRoot
<1>9. CASE mode = 0
  BY <1>7, <1>9, SMT DEF RoomStateRoot, RootOf
<1>10. CASE mode = 1
  BY <1>8, <1>10, SMT DEF RoomStateRoot, RootOf
<1> QED
  BY <1>9, <1>10

\* The hash of a runtime binds it.
LEMMA SameHash ==
    ASSUME NEW r, NEW t, CodeHash(r) = CodeHash(t)
    PROVE  r.code = t.code
BY SMT DEF CodeHash

\* A record is determined by its leaf.
LEMMA LeafBinds ==
    ASSUME NEW r, NEW t, RecordOK(r), RecordOK(t),
           <<r.live, r.storage, CodeHash(r)>> = <<t.live, t.storage, CodeHash(t)>>
    PROVE  r = t
<1>1. r.live = t.live /\ r.storage = t.storage /\ CodeHash(r) = CodeHash(t)
  BY SMT
<1>2. r.code = t.code
  BY <1>1, SMT DEF CodeHash
<1> QED
  BY <1>1, <1>2 DEF RecordOK

\* A root opens to one state.
LEMMA RootBinds ==
    ASSUME NEW A, NEW B, AccountsOK(A), AccountsOK(B), NEW mode, mode \in {0, 1},
           RootOf(A, mode) = RootOf(B, mode)
    PROVE  A = B
<1>1. LeavesOf(A) = LeavesOf(B)
  BY SMT DEF RootOf
<1>2. DOMAIN A = DOMAIN B
  BY <1>1 DEF LeavesOf
<1>3. ASSUME NEW a \in DOMAIN A PROVE A[a] = B[a]
  <2>1. LeavesOf(A)[a] = <<A[a].live, A[a].storage, CodeHash(A[a])>>
    BY DEF LeavesOf
  <2>2. LeavesOf(B)[a] = <<B[a].live, B[a].storage, CodeHash(B[a])>>
    BY <1>2 DEF LeavesOf
  <2>3. RecordOK(A[a]) /\ RecordOK(B[a])
    BY <1>2 DEF AccountsOK
  <2> QED
    BY <1>1, <2>1, <2>2, <2>3, LeafBinds
<1> QED
  BY <1>2, <1>3 DEF AccountsOK

\* What verify_compact_state_v4 lets through has no blank account.
LEMMA CompactOpens ==
    ASSUME NEW w, CompactOk(w), DOMAIN w \subseteq Addr
    PROVE  /\ AccountsOK(FromCompact(w).accounts) /\ Solid(FromCompact(w).accounts)
           /\ DOMAIN FromCompact(w).accounts \subseteq DOMAIN w
<1> DEFINE A == FromCompact(w).accounts
           live == {x \in DOMAIN w : w[x].exists}
           record(a) == [live |-> w[a].live, code |-> w[a].code,
                         storage |-> [s \in Slot |->
                            IF s \in DOMAIN w[a].slots THEN w[a].slots[s] ELSE 0]]
<1>1. A = [a \in live |-> record(a)]
  BY DEF FromCompact
<1>2. \A a \in live : w[a].live \/ w[a].code # NoCode
  BY DEF CompactOk
<1>3. ASSUME NEW a \in live PROVE /\ RecordOK(record(a)) /\ ~IsEmpty(record(a))
                                  /\ record(a).live = w[a].live /\ record(a).code = w[a].code
  <2>1. record(a).live = w[a].live /\ record(a).code = w[a].code
    BY SMT
  <2>2. RecordOK(record(a))
    BY SMT DEF RecordOK
  <2>3. NoRecord.live = FALSE /\ NoRecord.code = NoCode
    BY SMT DEF NoRecord
  <2> HIDE DEF record
  <2>4. ~IsEmpty(record(a))
    BY <1>2, <2>1, <2>3 DEF IsEmpty
  <2> QED
    BY <2>1, <2>2, <2>4
<1> HIDE DEF record, A
<1>4. DOMAIN A = live /\ \A a \in live : A[a] = record(a)
  BY <1>1
<1>5. AccountsOK(A)
  BY <1>1, <1>3, <1>4 DEF AccountsOK
<1>6. Solid(A)
  BY <1>2, <1>3, <1>4 DEF Solid
<1> QED
  BY <1>4, <1>5, <1>6 DEF A

\* The entry of a record declares slots only.
LEMMA EntryFields ==
    ASSUME NEW r, NEW declared, declared \subseteq Slot
    PROVE  /\ DOMAIN Entry(r, declared) = {"exists", "live", "code", "slots"}
           /\ DOMAIN Entry(r, declared).slots \subseteq Slot
<1>1. Entry(r, declared).slots
        = Restrict(r.storage, {s \in Slot : r.storage[s] # 0} \cup declared)
  BY SMT DEF Entry
<1>2. DOMAIN Entry(r, declared).slots = {s \in Slot : r.storage[s] # 0} \cup declared
  BY <1>1 DEF Restrict
<1>3. DOMAIN Entry(r, declared) = {"exists", "live", "code", "slots"}
  BY SMT DEF Entry
<1> QED
  BY <1>2, <1>3

\* A witness declares addresses and slots.
DeclaresWords(w) == DOMAIN w \subseteq Addr /\ \A a \in DOMAIN w : DOMAIN w[a].slots \subseteq Slot

\* Whatever a prover presents declares words.
LEMMA WitnessWords ==
    ASSUME NEW A, DOMAIN A \subseteq Addr, policy \in Policies, NEW w \in Witnesses(A)
    PROVE  DeclaresWords(w)
<1> DEFINE absent == Addr \ DOMAIN A
           honest(more) ==
             [a \in DOMAIN A \cup DOMAIN more |->
                Entry(RecordAt(A, a), IF a \in DOMAIN more \ absent THEN more[a] ELSE {})]
<1>1. ASSUME NEW more, DOMAIN more \subseteq Addr, \A a \in DOMAIN more : more[a] \subseteq Slot
      PROVE  /\ DeclaresWords(honest(more))
             /\ \A a \in DOMAIN honest(more) :
                  DOMAIN honest(more)[a] = {"exists", "live", "code", "slots"}
  <2>1. DOMAIN honest(more) = DOMAIN A \cup DOMAIN more
    OBVIOUS
  <2>2. ASSUME NEW a \in DOMAIN honest(more)
        PROVE  /\ DOMAIN honest(more)[a] = {"exists", "live", "code", "slots"}
               /\ DOMAIN honest(more)[a].slots \subseteq Slot
    <3> DEFINE d == IF a \in DOMAIN more \ absent THEN more[a] ELSE {}
    <3>1. d \subseteq Slot
      BY <1>1
    <3>2. honest(more)[a] = Entry(RecordAt(A, a), d)
      BY <2>1
    <3> QED
      BY <3>1, <3>2, EntryFields
  <2> QED
    BY <1>1, <2>1, <2>2 DEF DeclaresWords
<1>2. DOMAIN <<>> = {}
  BY SMT
<1>3. DeclaresWords(honest(<<>>)) /\ \A a \in DOMAIN honest(<<>>) :
        DOMAIN honest(<<>>)[a] = {"exists", "live", "code", "slots"}
  BY <1>1, <1>2
<1>4. \/ \E more \in Envelopes : w = honest(more)
      \/ \E a \in absent : w = [x \in DOMAIN A \cup {a} |->
             IF x = a THEN [Entry(NoRecord, {}) EXCEPT !.exists = TRUE] ELSE honest(<<>>)[x]]
      \/ \E c \in policy.imports : w = [honest(<<>>) EXCEPT ![c.contract].slots =
             [s \in DOMAIN @ \cup {c.slot} |-> IF s = c.slot THEN 2 ELSE @[s]]]
  BY DEF Witnesses
<1> DEFINE h == honest(<<>>)
<1>8. DOMAIN h = DOMAIN A
  BY <1>2
<1> HIDE DEF honest
<1>5. CASE \E more \in Envelopes : w = honest(more)
  <2>1. PICK more \in Envelopes : w = honest(more)
    BY <1>5
  <2>2. DOMAIN more \subseteq Addr /\ \A a \in DOMAIN more : more[a] \subseteq Slot
    BY StateAssumption
  <2> QED
    BY <1>1, <2>1, <2>2
<1>6. CASE \E a \in absent : w = [x \in DOMAIN A \cup {a} |->
             IF x = a THEN [Entry(NoRecord, {}) EXCEPT !.exists = TRUE] ELSE h[x]]
  <2> DEFINE e == [Entry(NoRecord, {}) EXCEPT !.exists = TRUE]
  <2>1. PICK a \in absent : w = [x \in DOMAIN A \cup {a} |-> IF x = a THEN e ELSE h[x]]
    BY <1>6
  <2>2. e.slots = Entry(NoRecord, {}).slots
    BY EntryFields, SMT
  <2>3. DOMAIN e.slots \subseteq Slot
    BY <2>2, EntryFields
  <2> HIDE DEF e, h
  <2>4. DOMAIN w = {a} \cup DOMAIN h
    BY <1>8, <2>1 DEF h
  <2>5. \A x \in DOMAIN w : w[x] = e \/ (x \in DOMAIN h /\ w[x] = h[x])
    BY <1>8, <2>1, <2>4 DEF h
  <2>6. DeclaresWords(h)
    BY <1>3 DEF h
  <2> QED
    BY <2>3, <2>4, <2>5, <2>6 DEF DeclaresWords
<1>7. CASE \E c \in policy.imports : w = [h EXCEPT ![c.contract].slots =
             [s \in DOMAIN @ \cup {c.slot} |-> IF s = c.slot THEN 2 ELSE @[s]]]
  <2>1. PICK c \in policy.imports : w = [h EXCEPT ![c.contract].slots =
             [s \in DOMAIN @ \cup {c.slot} |-> IF s = c.slot THEN 2 ELSE @[s]]]
    BY <1>7
  <2>2. c.slot \in Slot
    BY StateAssumption, SMT
  <2> DEFINE old == h[c.contract].slots
             t == [s \in DOMAIN old \cup {c.slot} |-> IF s = c.slot THEN 2 ELSE old[s]]
  <2>3. DOMAIN t = {c.slot} \cup DOMAIN h[c.contract].slots
    OBVIOUS
  <2> HIDE DEF t, h
  <2>4. DOMAIN w = DOMAIN h
    BY <2>1
  <2>5. \A x \in DOMAIN w : x # c.contract => w[x] = h[x]
    BY <2>1, <2>4
  <2>6. c.contract \in DOMAIN w => w[c.contract] = [h[c.contract] EXCEPT !.slots = t]
    BY <2>1, <2>4 DEF t
  <2>7. c.contract \in DOMAIN w => w[c.contract].slots = t
    BY <1>3, <2>4, <2>6, SMT DEF h
  <2>8. DeclaresWords(h)
    BY <1>3 DEF h
  <2> QED
    BY <2>2, <2>3, <2>4, <2>5, <2>7, <2>8 DEF DeclaresWords
<1> QED
  BY <1>4, <1>5, <1>6, <1>7

(***************************************************************************)
(* What a batch does to the accounts it opens.                             *)
(***************************************************************************)

\* The fields of a room's state.
StateFields == {"accounts", "declared", "prepared"}

\* Accounts and slots in use are declared.
Within(accounts, declared) ==
    \A a \in DOMAIN accounts :
      a \in DOMAIN declared /\ \A s \in Slot : accounts[a].storage[s] # 0 => s \in declared[a]

\* The declared accounts and slots are those of a witness that was accepted.
Envelope(declared) ==
    \E w : CompactOk(w) /\ DeclaresWords(w) /\ declared = [a \in DOMAIN w |-> DOMAIN w[a].slots]

\* Before its blocks a batch changes the slots of imports and deposits only.
Supplied(imports, before, after) ==
    /\ DOMAIN after = DOMAIN before
    /\ \A a \in DOMAIN before :
         /\ after[a].live = before[a].live /\ after[a].code = before[a].code
         /\ \A s \in Slot : \/ after[a].storage[s] = before[a].storage[s]
                            \/ [contract |-> a, slot |-> s] \in imports
                            \/ <<a, s>> = CreditAt

\* A state before the blocks run.
Loaded(state) ==
    /\ DOMAIN state = StateFields
    /\ AccountsOK(state.accounts) /\ Solid(state.accounts)
    /\ Envelope(state.declared) /\ Within(state.accounts, state.declared)

\* verify_compact_state_v4 yields such a state.
LEMMA CompactLoads ==
    ASSUME NEW w, CompactOk(w), DeclaresWords(w)
    PROVE  Loaded(FromCompact(w))
<1> DEFINE st == FromCompact(w)
<1>1. DOMAIN w \subseteq Addr
  BY DEF DeclaresWords
<1>2. AccountsOK(st.accounts) /\ Solid(st.accounts) /\ DOMAIN st.accounts \subseteq DOMAIN w
  BY <1>1, CompactOpens
<1>3. DOMAIN st = StateFields /\ st.declared = [a \in DOMAIN w |-> DOMAIN w[a].slots]
  BY SMT DEF FromCompact, StateFields
<1>4. Envelope(st.declared)
  BY <1>3 DEF Envelope
<1>5. ASSUME NEW a \in DOMAIN st.accounts, NEW s \in Slot, st.accounts[a].storage[s] # 0
      PROVE  s \in DOMAIN w[a].slots
  <2>1. st.accounts[a].storage = [x \in Slot |->
          IF x \in DOMAIN w[a].slots THEN w[a].slots[x] ELSE 0]
    BY SMT DEF FromCompact
  <2> QED
    BY <1>5, <2>1
<1>6. Within(st.accounts, st.declared)
  BY <1>2, <1>3, <1>5 DEF Within
<1> QED
  BY <1>2, <1>3, <1>4, <1>6 DEF Loaded

\* A storage has a value per slot.
StorageType(storage) == storage = [s \in Slot |-> storage[s]]

\* A record whose storage is replaced.
WithStorage(r, storage) == [r EXCEPT !.storage = storage]

\* A record with another storage.
LEMMA Restored ==
    ASSUME NEW r, RecordOK(r), NEW storage, StorageType(storage)
    PROVE  /\ WithStorage(r, storage).live = r.live /\ WithStorage(r, storage).code = r.code
           /\ WithStorage(r, storage).storage = storage /\ RecordOK(WithStorage(r, storage))
<1> DEFINE t == WithStorage(r, storage)
<1>1. DOMAIN r = {"live", "code", "storage"}
  BY SMT DEF RecordOK
<1>2. t = [live |-> r.live, code |-> r.code, storage |-> storage]
  BY <1>1, SMT DEF RecordOK, WithStorage
<1> HIDE DEF t
<1>3. t.live = r.live /\ t.code = r.code /\ t.storage = storage
  BY <1>2, SMT
<1>4. RecordOK(t)
  BY <1>2, <1>3, SMT DEF RecordOK, StorageType
<1> QED
  BY <1>3, <1>4 DEF t

\* Accounts with the same lives and codes, and storages of the right type.
LEMMA SameLives ==
    ASSUME NEW A, AccountsOK(A), Solid(A), NEW B, B = [a \in DOMAIN A |-> B[a]],
           \A a \in DOMAIN A : RecordOK(B[a]) /\ B[a].live = A[a].live /\ B[a].code = A[a].code
    PROVE  AccountsOK(B) /\ Solid(B) /\ DOMAIN B = DOMAIN A
<1>1. DOMAIN B = DOMAIN A
  OBVIOUS
<1>2. Solid(B)
  BY <1>1 DEF Solid
<1>3. NoRecord.live = FALSE /\ NoRecord.code = NoCode
  BY SMT DEF NoRecord
<1>4. \A a \in DOMAIN B : ~IsEmpty(B[a])
  BY <1>2, <1>3 DEF IsEmpty, Solid
<1> QED
  BY <1>1, <1>2, <1>4 DEF AccountsOK

\* verify_and_apply_import_v5 writes the slots of the imports.
LEMMA ImportLoads ==
    ASSUME NEW st, Loaded(st), ImportOk(st)
    PROVE  /\ Loaded(Imported(st)) /\ Imported(st).declared = st.declared
           /\ Supplied(policy.imports, st.accounts, Imported(st).accounts)
<1> DEFINE A == st.accounts
           filled(a) == [s \in Slot |-> IF [contract |-> a, slot |-> s] \in policy.imports
                                        THEN mirror ELSE A[a].storage[s]]
           B == [a \in DOMAIN A |-> [A[a] EXCEPT !.storage = filled(a)]]
<1>1. DOMAIN st = StateFields /\ AccountsOK(A) /\ Solid(A)
      /\ Envelope(st.declared) /\ Within(A, st.declared)
  BY DEF Loaded
<1>2. Imported(st) = [st EXCEPT !.accounts = B]
  BY SMT DEF Imported
<1>3. Imported(st).accounts = B /\ Imported(st).declared = st.declared
      /\ DOMAIN Imported(st) = StateFields
  <2> HIDE DEF B
  <2> QED
    BY <1>1, <1>2, SMT DEF StateFields
<1>4. ASSUME NEW a \in DOMAIN A
      PROVE  /\ B[a].live = A[a].live /\ B[a].code = A[a].code /\ B[a].storage = filled(a)
             /\ RecordOK(B[a])
  <2>1. B[a] = WithStorage(A[a], filled(a))
    BY DEF WithStorage
  <2>2. RecordOK(A[a])
    BY <1>1 DEF AccountsOK
  <2>3. StorageType(filled(a))
    BY DEF StorageType
  <2> DEFINE r == A[a]
             t == WithStorage(r, filled(a))
  <2> HIDE DEF filled, B
  <2>4. t.live = r.live /\ t.code = r.code /\ t.storage = filled(a) /\ RecordOK(t)
    BY <2>2, <2>3, Restored, SMT
  <2> QED
    BY <2>1, <2>4, SMT
<1>5. B = [a \in DOMAIN A |-> B[a]] /\ DOMAIN B = DOMAIN A
  OBVIOUS
<1>6. \A a \in DOMAIN A, s \in Slot :
        [contract |-> a, slot |-> s] \notin policy.imports => filled(a)[s] = A[a].storage[s]
  OBVIOUS
<1> HIDE DEF filled, B
<1>7. AccountsOK(B) /\ Solid(B)
  BY <1>1, <1>4, <1>5, SameLives
<1>8. Supplied(policy.imports, A, B)
  <2>1. ASSUME NEW a \in DOMAIN A, NEW s \in Slot
        PROVE  B[a].storage[s] = A[a].storage[s] \/ [contract |-> a, slot |-> s] \in policy.imports
    BY <1>4, <1>6
  <2>2. \A a \in DOMAIN A : B[a].live = A[a].live /\ B[a].code = A[a].code
    BY <1>4
  <2> HIDE DEF A
  <2> QED
    BY <1>5, <2>1, <2>2 DEF Supplied
<1>9. ASSUME NEW a \in DOMAIN A, NEW s \in Slot, [contract |-> a, slot |-> s] \in policy.imports
      PROVE  s \in st.declared[a]
  <2> DEFINE b == [contract |-> a, slot |-> s]
  <2>1. b.contract = a /\ b.slot = s
    BY SMT
  <2> HIDE DEF b
  <2>2. b \in policy.imports
    BY <1>9 DEF b
  <2> QED
    BY <2>1, <2>2 DEF ImportOk, Readable
<1>10. Within(B, st.declared)
  <2> SUFFICES ASSUME NEW a \in DOMAIN A
               PROVE  /\ a \in DOMAIN st.declared
                      /\ \A s \in Slot : B[a].storage[s] # 0 => s \in st.declared[a]
    BY <1>5 DEF Within
  <2>1. /\ a \in DOMAIN st.declared
        /\ \A s \in Slot : A[a].storage[s] # 0 => s \in st.declared[a]
    BY <1>1 DEF Within
  <2>2. ASSUME NEW s \in Slot, B[a].storage[s] # 0 PROVE s \in st.declared[a]
    <3>1. CASE [contract |-> a, slot |-> s] \in policy.imports
      BY <1>9, <3>1
    <3>2. CASE [contract |-> a, slot |-> s] \notin policy.imports
      <4>1. B[a].storage = filled(a) /\ filled(a)[s] = A[a].storage[s]
        BY <1>4, <1>6, <3>2
      <4> QED
        BY <2>1, <2>2, <4>1
    <3> QED
      BY <3>1, <3>2
  <2> QED
    BY <2>1, <2>2
<1> QED
  BY <1>1, <1>3, <1>7, <1>8, <1>10 DEF Loaded

\* apply_deposit_credits_v5 writes the slot of the deposit.
LEMMA CreditLoads ==
    ASSUME NEW st, Loaded(st), CreditOk(st), NEW imports
    PROVE  /\ Loaded(Credited(st)) /\ Credited(st).declared = st.declared
           /\ Supplied(imports, st.accounts, Credited(st).accounts)
<1> DEFINE A == st.accounts
           c == CreditAt[1]
           x == CreditAt[2]
           storage == [A[c].storage EXCEPT ![x] = @ + 1]
           B == [A EXCEPT ![c] = WithStorage(@, storage)]
<1>1. DOMAIN st = StateFields /\ AccountsOK(A) /\ Solid(A)
      /\ Envelope(st.declared) /\ Within(A, st.declared)
  BY DEF Loaded
<1>2. Credited(st) = [st EXCEPT !.accounts = B]
  BY SMT DEF Credited, WithStorage
<1>3. Credited(st).accounts = B /\ Credited(st).declared = st.declared
      /\ DOMAIN Credited(st) = StateFields
  <2> HIDE DEF B
  <2> QED
    BY <1>1, <1>2, SMT DEF StateFields
<1>4. /\ DOMAIN B = DOMAIN A /\ B = [a \in DOMAIN A |-> B[a]]
      /\ \A a \in DOMAIN A : a # c => B[a] = A[a]
      /\ c \in DOMAIN A => B[c] = WithStorage(A[c], storage)
  <2> HIDE DEF storage, c
  <2> QED
    OBVIOUS
<1>5. ASSUME NEW a \in DOMAIN A
      PROVE  /\ B[a].live = A[a].live /\ B[a].code = A[a].code /\ RecordOK(B[a])
             /\ \A s \in Slot : B[a].storage[s] = A[a].storage[s] \/ (a = c /\ s = x)
  <2>1. RecordOK(A[a])
    BY <1>1 DEF AccountsOK
  <2>2. CASE a # c
    <3> HIDE DEF B, c
    <3> QED
      BY <1>4, <2>1, <2>2
  <2>3. CASE a = c
    <3>1. A[a].storage = [s \in Slot |-> A[a].storage[s]]
      <4> DEFINE r == A[a]
      <4>1. r = [live |-> r.live, code |-> r.code, storage |-> [s \in Slot |-> r.storage[s]]]
        BY <2>1 DEF RecordOK
      <4> HIDE DEF r
      <4>2. r.storage = [s \in Slot |-> r.storage[s]]
        BY <4>1, SMT
      <4> QED
        BY <4>2 DEF r
    <3>2. StorageType(storage) /\ \A s \in Slot : s # x => storage[s] = A[a].storage[s]
      <4> DEFINE old == A[a].storage
      <4> HIDE DEF x
      <4>1. storage = [old EXCEPT ![x] = @ + 1]
        BY <2>3
      <4>2. DOMAIN old = Slot
        BY <3>1
      <4> HIDE DEF old, storage
      <4> QED
        BY <4>1, <4>2 DEF StorageType, old
    <3> DEFINE r == A[a]
               t == WithStorage(r, storage)
    <3> HIDE DEF storage, B, c
    <3>3. t.live = r.live /\ t.code = r.code /\ t.storage = storage /\ RecordOK(t)
      BY <2>1, <3>2, Restored, SMT
    <3>4. B[a] = t
      BY <1>4, <2>3
    <3> HIDE DEF r, t
    <3>5. \A s \in Slot : B[a].storage[s] = A[a].storage[s] \/ s = x
      BY <3>2, <3>3, <3>4 DEF r
    <3> QED
      BY <2>3, <3>3, <3>4, <3>5 DEF r
  <2> QED
    BY <2>2, <2>3
<1> HIDE DEF B
<1>6. AccountsOK(B) /\ Solid(B)
  BY <1>1, <1>4, <1>5, SameLives
<1>8. Supplied(imports, A, B)
  <2>1. \A a, s : a = c /\ s = x => <<a, s>> = CreditAt
    BY StateAssumption, SMT
  <2> HIDE DEF c, x
  <2>2. \A a \in DOMAIN A : \A s \in Slot :
          B[a].storage[s] = A[a].storage[s] \/ <<a, s>> = CreditAt
    BY <1>5, <2>1
  <2>3. DOMAIN B = DOMAIN A /\ \A a \in DOMAIN A : B[a].live = A[a].live /\ B[a].code = A[a].code
    BY <1>4, <1>5
  <2> QED
    BY <2>2, <2>3 DEF Supplied
<1>9. Within(B, st.declared)
  BY <1>1, <1>4, <1>5 DEF Within, CreditOk, Readable
<1> QED
  BY <1>1, <1>3, <1>6, <1>8, <1>9 DEF Loaded

\* A record that holds something.
Nonblank(r) == r.live \/ r.code # NoCode \/ \E s \in Slot : r.storage[s] # 0

\* A state while the blocks run: the accounts of the snapshot are still there with
\* their code, and no other account has any.
Running(snapshot, state) ==
    /\ DOMAIN state = StateFields /\ AccountsOK(state.accounts)
    /\ Envelope(state.declared) /\ Within(state.accounts, state.declared)
    /\ \A a \in DOMAIN snapshot :
         /\ a \in DOMAIN state.accounts /\ state.accounts[a].code = snapshot[a].code
         /\ state.accounts[a].live \/ state.accounts[a].code # NoCode
    /\ \A a \in DOMAIN state.accounts \ DOMAIN snapshot : state.accounts[a].code = NoCode
    /\ \A a \in DOMAIN state.accounts : Nonblank(state.accounts[a])

\* What a batch starts its blocks on.
LEMMA OpenLoads ==
    ASSUME NEW w, CompactOk(w), DeclaresWords(w), NEW import \in BOOLEAN, NEW deposit \in BOOLEAN,
           NEW opened, opened = FromCompact(w),
           NEW imported, imported = IF import THEN Imported(opened) ELSE opened,
           NEW credited, credited = IF deposit THEN Credited(imported) ELSE imported,
           import => ImportOk(opened), deposit => CreditOk(imported)
    PROVE  Loaded(credited) /\ Supplied(policy.imports, opened.accounts, credited.accounts)
<1>1. Loaded(opened)
  BY CompactLoads
<1>2. \A A, imports : Supplied(imports, A, A)
  BY DEF Supplied
<1>3. Loaded(imported) /\ Supplied(policy.imports, opened.accounts, imported.accounts)
  <2>1. CASE import
    BY <1>1, <2>1, ImportLoads
  <2>2. CASE ~import
    BY <1>1, <1>2, <2>2
  <2> QED
    BY <2>1, <2>2
<1>4. Loaded(credited) /\ Supplied(policy.imports, imported.accounts, credited.accounts)
  <2>1. CASE deposit
    BY <1>3, <2>1, CreditLoads
  <2>2. CASE ~deposit
    BY <1>2, <1>3, <2>2
  <2> QED
    BY <2>1, <2>2
<1>5. ASSUME NEW imports, NEW A, NEW B, NEW C, Supplied(imports, A, B), Supplied(imports, B, C)
      PROVE  Supplied(imports, A, C)
  BY <1>5, ZenonT(60) DEF Supplied
<1> QED
  BY <1>3, <1>4, <1>5

\* The blocks of a batch start on such a state.
LEMMA LoadedRuns ==
    ASSUME NEW state, Loaded(state), NEW bindings
    PROVE  Running(state.accounts, [state EXCEPT !.prepared = bindings])
<1> DEFINE st == [state EXCEPT !.prepared = bindings]
<1>1. /\ DOMAIN state = StateFields /\ AccountsOK(state.accounts) /\ Solid(state.accounts)
      /\ Envelope(state.declared) /\ Within(state.accounts, state.declared)
  BY DEF Loaded
<1>2. DOMAIN st = StateFields /\ st.accounts = state.accounts /\ st.declared = state.declared
  BY <1>1, SMT DEF StateFields
<1> HIDE DEF st
<1>3. Running(state.accounts, st)
  BY <1>1, <1>2 DEF Running, Solid, Nonblank
<1> QED
  BY <1>3 DEF st

\* A change that neither creates nor destroys the account.
Calm(accounts, a, sender, change) ==
    /\ change.created = FALSE /\ change.destroyed = FALSE
    /\ change.code = RecordAt(accounts, a).code
    /\ change.live <=> RecordAt(accounts, a).live \/ a = sender
    /\ ~change.live => change.live = FALSE

\* What a transaction that creates nothing hands to commit.
LEMMA ChangesMade ==
    ASSUME NEW state, NEW tx, tx.creates = {}, NEW a \in DOMAIN Changes(state, tx)
    PROVE  Calm(state.accounts, a, tx.from, Changes(state, tx)[a])
<1> DEFINE change == Changes(state, tx)[a]
           done == IF tx.reverts THEN {} ELSE DOMAIN tx.writes \cup tx.creates
           touched == {tx.from} \cup done \cup ({tx.to} \ {Nothing})
           old == RecordAt(state.accounts, a)
           d == a \in done \cap tx.creates
<1>1. ~d
  OBVIOUS
<1>2. a \in touched
  BY DEF Changes
<1>3. change = [created |-> d, destroyed |-> a \in done \cap tx.creates \cap tx.destroys,
                live |-> old.live \/ a = tx.from \/ d,
                code |-> IF d THEN tx.runtime ELSE old.code,
                writes |-> IF a \in done \cap DOMAIN tx.writes THEN tx.writes[a] ELSE <<>>]
  BY <1>2 DEF Changes
<1> HIDE DEF change
<1>4. a \notin done \cap tx.creates \cap tx.destroys
  OBVIOUS
<1> HIDE DEF done, old
<1>5. /\ change.created = d /\ change.destroyed = (a \in done \cap tx.creates \cap tx.destroys)
      /\ change.live = (old.live \/ a = tx.from \/ d)
      /\ change.code = IF d THEN tx.runtime ELSE old.code
  BY <1>3, SMT
<1>6. d = FALSE /\ (a \in done \cap tx.creates \cap tx.destroys) = FALSE
  BY <1>1, <1>4, SMT
<1> HIDE DEF d
<1>7. change.created = FALSE /\ change.destroyed = FALSE
  BY <1>5, <1>6
<1>8. change.code = old.code
  BY <1>1, <1>5
<1>9. change.live <=> old.live \/ a = tx.from
  BY <1>1, <1>5
<1>10. ~change.live => change.live = FALSE
  BY <1>5, SMT
<1> QED
  BY <1>7, <1>8, <1>9, <1>10 DEF old, Calm, change

\* A record that holds the change and what it leaves alone.
Merges(accounts, a, change, m) ==
    /\ RecordOK(m) /\ m.live = change.live /\ m.code = change.code
    /\ \A s \in Slot : s \notin DOMAIN change.writes => m.storage[s] = SlotAt(accounts, a, s)

\* What commit makes of a touched account.
LEMMA MergedFields ==
    ASSUME NEW state, NEW a, NEW change, ~change.created
    PROVE  Merges(state.accounts, a, change, Merged(state, a, change))
<1> DEFINE old == RecordAt(state.accounts, a)
           base == IF change.created THEN ZeroStorage ELSE old.storage
           storage == [s \in Slot |-> IF s \in DOMAIN change.writes THEN change.writes[s]
                                      ELSE base[s]]
           m == Merged(state, a, change)
<1>1. m = [live |-> change.live, code |-> change.code, storage |-> storage]
  BY DEF Merged
<1>2. base = old.storage
  OBVIOUS
<1>3. \A s \in Slot : s \notin DOMAIN change.writes => storage[s] = SlotAt(state.accounts, a, s)
  BY <1>2 DEF SlotAt
<1>4. StorageType(storage)
  BY DEF StorageType
<1> HIDE DEF storage, m
<1>5. m.live = change.live /\ m.code = change.code /\ m.storage = storage
  BY <1>1, SMT
<1>6. RecordOK(m)
  BY <1>1, <1>4, <1>5 DEF RecordOK, StorageType
<1> QED
  BY <1>3, <1>5, <1>6 DEF m, Merges

\* A record that is not the default one holds something.
LEMMA FilledRecord ==
    ASSUME NEW r, RecordOK(r), ~IsEmpty(r), ~r.live => r.live = FALSE
    PROVE  Nonblank(r)
<1> SUFFICES ASSUME ~Nonblank(r) PROVE FALSE
  BY SMT
<1>1. r.live = FALSE /\ r.code = NoCode /\ \A s \in Slot : r.storage[s] = 0
  BY DEF Nonblank
<1>2. [s \in Slot |-> r.storage[s]] = ZeroStorage
  BY <1>1 DEF ZeroStorage
<1>3. r = [live |-> r.live, code |-> r.code, storage |-> ZeroStorage]
  BY <1>2 DEF RecordOK
<1> QED
  BY <1>1, <1>3 DEF IsEmpty, NoRecord

\* A transaction that creates nothing leaves the snapshot's accounts in place, and
\* gives no account code.
LEMMA TxRuns ==
    ASSUME NEW snapshot, NEW state, Running(snapshot, state), NEW tx, tx.creates = {},
           NEW changes, changes = Changes(state, tx), CommitAllowed(state, changes)
    PROVE  Running(snapshot, Commit(state, changes))
<1> DEFINE A == state.accounts
           merged == [a \in DOMAIN changes |-> Merged(state, a, changes[a])]
           gone == {a \in DOMAIN changes : changes[a].destroyed \/ IsEmpty(merged[a])}
           left == (DOMAIN A \cup DOMAIN changes) \ gone
           B == [a \in left |-> IF a \in DOMAIN merged THEN merged[a] ELSE A[a]]
           st == Commit(state, changes)
<1>1. /\ DOMAIN state = StateFields /\ AccountsOK(A)
      /\ Envelope(state.declared) /\ Within(A, state.declared)
      /\ \A a \in DOMAIN snapshot :
           /\ a \in DOMAIN A /\ A[a].code = snapshot[a].code
           /\ A[a].live \/ A[a].code # NoCode
      /\ \A a \in DOMAIN A \ DOMAIN snapshot : A[a].code = NoCode
      /\ \A a \in DOMAIN A : Nonblank(A[a])
  BY DEF Running
<1>2. st.accounts = B /\ st.declared = state.declared /\ DOMAIN st = StateFields
  <2> DEFINE kept == Restrict(state.prepared, {a \in DOMAIN state.prepared :
                       a \in left /\ CodeHash(B[a]) = state.prepared[a]})
  <2>1. st = [state EXCEPT !.accounts = B, !.prepared = kept]
    BY SMT DEF Commit
  <2> HIDE DEF B, kept, st
  <2> QED
    BY <1>1, <2>1, SMT DEF StateFields
<1>3. ASSUME NEW a \in DOMAIN changes
      PROVE  /\ merged[a] = Merged(state, a, changes[a])
             /\ changes[a].created = FALSE /\ changes[a].destroyed = FALSE
             /\ changes[a].code = RecordAt(A, a).code
             /\ changes[a].live <=> RecordAt(A, a).live \/ a = tx.from
             /\ ~changes[a].live => changes[a].live = FALSE
  <2>1. merged[a] = Merged(state, a, changes[a])
    OBVIOUS
  <2>2. a \in DOMAIN Changes(state, tx)
    BY SMT
  <2>3. Calm(A, a, tx.from, Changes(state, tx)[a])
    BY <2>2, ChangesMade
  <2> HIDE DEF merged
  <2> QED
    BY <2>1, <2>3 DEF Calm
<1>4. ASSUME NEW a \in DOMAIN changes
      PROVE  /\ RecordOK(merged[a])
             /\ merged[a].live <=> RecordAt(A, a).live \/ a = tx.from
             /\ merged[a].code = RecordAt(A, a).code
             /\ ~merged[a].live => merged[a].live = FALSE
             /\ \A s \in Slot : s \notin DOMAIN changes[a].writes =>
                  merged[a].storage[s] = SlotAt(A, a, s)
  <2> DEFINE m == Merged(state, a, changes[a])
  <2>1. /\ RecordOK(m) /\ m.live = changes[a].live /\ m.code = changes[a].code
        /\ \A s \in Slot : s \notin DOMAIN changes[a].writes => m.storage[s] = SlotAt(A, a, s)
    <3>1. ~changes[a].created
      BY <1>3
    <3>2. Merges(A, a, changes[a], m)
      BY <3>1, MergedFields
    <3> HIDE DEF m
    <3> QED
      BY <3>2 DEF Merges
  <2>2. m.live <=> RecordAt(A, a).live \/ a = tx.from
    BY <1>3, <2>1
  <2>3. m = merged[a] /\ m.code = RecordAt(A, a).code
    BY <1>3, <2>1
  <2>4. ~m.live => m.live = FALSE
    BY <1>3, <2>1
  <2> HIDE DEF m
  <2> QED
    BY <2>1, <2>2, <2>3, <2>4
<1>5. DOMAIN merged = DOMAIN changes
  OBVIOUS
<1> HIDE DEF merged
<1>6. /\ DOMAIN B = left /\ B = [a \in left |-> B[a]]
      /\ \A a \in left : B[a] = IF a \in DOMAIN changes THEN merged[a] ELSE A[a]
  BY <1>5
<1> HIDE DEF B, st
<1>7. NoRecord.live = FALSE /\ NoRecord.code = NoCode /\ \A s \in Slot : NoRecord.storage[s] = 0
  BY SMT DEF NoRecord, ZeroStorage
<1>8. ASSUME NEW a \in DOMAIN snapshot
      PROVE  /\ a \in left /\ B[a].code = snapshot[a].code
             /\ B[a].live \/ B[a].code # NoCode
  <2>1. CASE a \in DOMAIN changes
    <3>1. RecordAt(A, a) = A[a]
      BY <1>1 DEF RecordAt
    <3>2. merged[a].code = snapshot[a].code /\ (merged[a].live \/ merged[a].code # NoCode)
      <4>1. /\ merged[a].live <=> A[a].live \/ a = tx.from
            /\ merged[a].code = A[a].code
        BY <1>4, <2>1, <3>1
      <4>2. A[a].code = snapshot[a].code /\ (A[a].live \/ A[a].code # NoCode)
        BY <1>1
      <4> QED
        BY <4>1, <4>2
    <3>3. ~IsEmpty(merged[a])
      BY <1>7, <3>2 DEF IsEmpty
    <3>4. a \in left
      BY <1>1, <1>3, <2>1, <3>3
    <3> QED
      BY <1>6, <2>1, <3>2, <3>4
  <2>2. CASE a \notin DOMAIN changes
    <3>1. a \in left
      BY <1>1, <2>2
    <3> QED
      BY <1>1, <1>6, <2>2, <3>1
  <2> QED
    BY <2>1, <2>2
<1>9. ASSUME NEW a \in left, a \notin DOMAIN snapshot PROVE B[a].code = NoCode
  <2>1. CASE a \in DOMAIN changes
    <3>1. RecordAt(A, a).code = NoCode
      BY <1>1, <1>7, <1>9 DEF RecordAt
    <3> QED
      BY <1>4, <1>6, <2>1, <3>1
  <2>2. CASE a \notin DOMAIN changes
    BY <1>1, <1>6, <1>9, <2>2
  <2> QED
    BY <2>1, <2>2
<1>10. ASSUME NEW a \in left
       PROVE  RecordOK(B[a]) /\ ~IsEmpty(B[a]) /\ a \in Addr /\ a \in DOMAIN state.declared
  <2>1. CASE a \in DOMAIN changes
    <3>1. a \in DOMAIN state.declared
      BY <2>1 DEF CommitAllowed
    <3>2. DOMAIN state.declared \subseteq Addr
      BY <1>1 DEF Envelope, DeclaresWords
    <3> QED
      BY <1>4, <1>6, <2>1, <3>1, <3>2
  <2>2. CASE a \notin DOMAIN changes
    BY <1>1, <1>6, <2>2 DEF AccountsOK, Within
  <2> QED
    BY <2>1, <2>2
<1>11. AccountsOK(B)
  BY <1>6, <1>10 DEF AccountsOK
<1>12. ASSUME NEW a \in left, NEW s \in Slot, B[a].storage[s] # 0
       PROVE  s \in state.declared[a]
  <2>1. CASE a \in DOMAIN changes /\ s \in DOMAIN changes[a].writes
    BY <2>1 DEF CommitAllowed
  <2>2. CASE a \in DOMAIN changes /\ s \notin DOMAIN changes[a].writes
    <3>0. merged[a].storage[s] = SlotAt(A, a, s)
      BY <1>4, <2>2
    <3>1. SlotAt(A, a, s) # 0
      BY <1>6, <1>12, <2>2, <3>0
    <3> QED
      BY <1>1, <1>7, <3>1 DEF SlotAt, RecordAt, Within
  <2>3. CASE a \notin DOMAIN changes
    BY <1>1, <1>6, <1>12, <2>3 DEF Within
  <2> QED
    BY <2>1, <2>2, <2>3
<1>13. Within(B, state.declared)
  BY <1>6, <1>10, <1>12 DEF Within
<1>14. ASSUME NEW a \in left PROVE Nonblank(B[a])
  <2>1. CASE a \in DOMAIN changes
    BY <1>4, <1>6, <1>10, <2>1, FilledRecord
  <2>2. CASE a \notin DOMAIN changes
    BY <1>1, <1>6, <2>2
  <2> QED
    BY <2>1, <2>2
<1> QED
  <2> HIDE DEF left
  <2>1. \A a \in DOMAIN snapshot : /\ a \in DOMAIN B /\ B[a].code = snapshot[a].code
                                   /\ B[a].live \/ B[a].code # NoCode
    BY <1>6, <1>8
  <2>2. \A a \in DOMAIN B \ DOMAIN snapshot : B[a].code = NoCode
    BY <1>6, <1>9
  <2>3. \A a \in DOMAIN B : Nonblank(B[a])
    BY <1>6, <1>14
  <2>4. Running(snapshot, st)
    BY <1>1, <1>2, <1>11, <1>13, <2>1, <2>2, <2>3 DEF Running
  <2> QED
    BY <2>4 DEF st

(***************************************************************************)
(* The state behind the room's root.                                       *)
(***************************************************************************)

\* What from_v5 asks of a policy whatever the accounts are.
Certified(p) ==
    /\ Bounded(p) /\ RulesOk(p) /\ ImportsOk(p) /\ RegistryOk(p) /\ ExitOk(p)
    /\ \A n \in p.storage : n.contract \in DOMAIN p.code

\* The slots in use.
UsedSlots(accounts) ==
    UNION {{<<a, s>> : s \in {x \in Slot : accounts[a].storage[x] # 0}} : a \in DOMAIN accounts}

\* Accounts that fit into a compact witness.
Fits(accounts) ==
    /\ Cardinality(DOMAIN accounts) <= MaxAccounts
    /\ Cardinality(UsedSlots(accounts)) <= MaxSlots

\* What a policy does not make writable is as it was in the template.
Unwritten ==
    \A a \in DOMAIN Genesis :
      /\ a \in DOMAIN policy.code => a \in DOMAIN truth /\ truth[a].code = Genesis[a].code
      /\ \A s \in Slot :
           Writable(policy, a, s) \/ <<a, s>> = CreditAt
             \/ SlotAt(truth, a, s) = Genesis[a].storage[s]

\* A room that exists has a policy that from_v5 admits on its accounts.
Opened ==
    /\ DOMAIN room = RoomFields /\ Certified(policy)
    /\ CodePinned(policy, Genesis)
    /\ CodePinned(policy, truth) /\ StorageOk(policy, truth)
    /\ room.root = RootOf(truth, policy.commitment)
    /\ room.participants = ParticipantsAt(truth)
    /\ room.participants["capacity"] = ParticipantsAt(Genesis)["capacity"]
    /\ room.batch \in Nat
    /\ room.batch > 0 => Fits(truth) /\ Solid(truth) /\ ParticipantsOk(truth)

\* A batch in its blocks runs on the room's accounts.
InBlocks ==
    /\ DOMAIN job = OpenedFields
    /\ job.opened = truth /\ Supplied(policy.imports, truth, job.snapshot)
    /\ CodePinned(policy, job.snapshot) /\ StorageOk(policy, job.snapshot)
    /\ Running(job.snapshot, job.state)
    /\ ParticipantsAt(job.snapshot) = room.participants

\* The inductive invariant behind ReadOnlyKept, Reopens and GuestSeesTruth.
Kept ==
    /\ policy \in Policies /\ AccountsOK(truth) /\ Unwritten
    /\ room = Nothing => job = Nothing
    /\ room # Nothing => Opened
    /\ job # Nothing =>
         /\ job.pc \in {"roster", "blocks"}
         /\ job.pc = "roster" => DOMAIN job = StartedFields
         /\ job.pc = "blocks" => InBlocks

\* Accounts differ in writable slots and in the one that deposits credit.
Steady(p, before, after) ==
    \A a : \A s \in Slot : \/ Writable(p, a, s) \/ <<a, s>> = CreditAt
                           \/ SlotAt(after, a, s) = SlotAt(before, a, s)

\* A slot outside the namespaces that may be written keeps its value from the
\* opening of a batch to its end.
LEMMA SlotKept ==
    ASSUME NEW p, ImportsOk(p), NEW A, NEW S, Supplied(p.imports, A, S), NEW B,
           ValidatePostState(p, S, B)
    PROVE  Steady(p, A, B)
<1> SUFFICES ASSUME NEW a, NEW s \in Slot, ~Writable(p, a, s), <<a, s>> # CreditAt
             PROVE  SlotAt(B, a, s) = SlotAt(A, a, s)
  BY DEF Steady
<1>1. SlotAt(S, a, s) = SlotAt(B, a, s)
  <2>1. CASE a \in DOMAIN S \cup DOMAIN B
    BY <2>1 DEF ValidatePostState
  <2>2. CASE a \notin DOMAIN S \cup DOMAIN B
    BY <2>2 DEF SlotAt, RecordAt
  <2> QED
    BY <2>1, <2>2
<1>2. [contract |-> a, slot |-> s] \notin p.imports
  <2> SUFFICES ASSUME [contract |-> a, slot |-> s] \in p.imports PROVE FALSE
    OBVIOUS
  <2>1. Writable(p, [contract |-> a, slot |-> s].contract, [contract |-> a, slot |-> s].slot)
    BY DEF ImportsOk
  <2>2. [contract |-> a, slot |-> s].contract = a /\ [contract |-> a, slot |-> s].slot = s
    OBVIOUS
  <2> QED
    BY <2>1, <2>2
<1>3. SlotAt(S, a, s) = SlotAt(A, a, s)
  <2>1. DOMAIN S = DOMAIN A
    BY DEF Supplied
  <2>2. CASE a \in DOMAIN A
    BY <1>2, <2>1, <2>2 DEF Supplied, SlotAt, RecordAt
  <2>3. CASE a \notin DOMAIN A
    BY <2>1, <2>3 DEF SlotAt, RecordAt
  <2> QED
    BY <2>2, <2>3
<1> QED
  BY <1>1, <1>3

\* Imports and deposits do not reach the participant registry.
LEMMA SuppliedParticipants ==
    ASSUME Certified(policy), NEW A, NEW S, Supplied(policy.imports, A, S)
    PROVE  ParticipantsAt(S) = ParticipantsAt(A)
<1> DEFINE r == policy.registry
<1>1. ASSUME NEW s \in RegistrySlots PROVE SlotAt(S, r, s) = SlotAt(A, r, s)
  <2>1. [contract |-> r, slot |-> s] \notin policy.imports
    BY DEF Certified, RegistryOk
  <2>2. s \in Slot /\ s # CreditAt[2]
    BY StateAssumption
  <2>3. <<r, s>> # CreditAt
    BY <2>2, SMT
  <2>4. DOMAIN S = DOMAIN A
    BY DEF Supplied
  <2>5. CASE r \in DOMAIN A
    BY <2>1, <2>2, <2>3, <2>4, <2>5 DEF Supplied, SlotAt, RecordAt
  <2>6. CASE r \notin DOMAIN A
    BY <2>4, <2>6 DEF SlotAt, RecordAt
  <2> QED
    BY <2>5, <2>6
<1> QED
  BY <1>1 DEF ParticipantsAt

\* validate_post_state leaves accounts that from_v5 admits again, none of them blank.
LEMMA PostAdmitted ==
    ASSUME NEW p, NEW S, NEW st, Running(S, st), CodePinned(p, S), StorageOk(p, S),
           ValidatePostState(p, S, st.accounts)
    PROVE  CodePinned(p, st.accounts) /\ StorageOk(p, st.accounts) /\ Solid(st.accounts)
<1> DEFINE B == st.accounts
<1>1. /\ \A a \in DOMAIN S : /\ a \in DOMAIN B /\ B[a].code = S[a].code
                             /\ B[a].live \/ B[a].code # NoCode
      /\ \A a \in DOMAIN B \ DOMAIN S : B[a].code = NoCode
      /\ \A a \in DOMAIN B : Nonblank(B[a])
  BY DEF Running
<1>2. /\ DOMAIN p.code # {} /\ \A a \in DOMAIN p.code : a \in DOMAIN S
      /\ \A a \in DOMAIN S : S[a].code # NoCode => a \in DOMAIN p.code
  BY DEF CodePinned
<1>3. /\ \A a \in DOMAIN p.code : a \in DOMAIN B /\ CodeHash(B[a]) = p.code[a]
      /\ \A a \in DOMAIN S \cup DOMAIN B, s \in Slot :
           SlotAt(S, a, s) # SlotAt(B, a, s) => Writable(p, a, s)
  BY DEF ValidatePostState
<1>4. /\ \A n \in p.storage : n.contract \in DOMAIN p.code
      /\ \A a \in DOMAIN S, s \in Slot : S[a].storage[s] # 0 => InNamespace(p, a, s)
  BY DEF StorageOk
<1>5. \A s \in Slot : NoRecord.storage[s] = 0
  BY SMT DEF NoRecord, ZeroStorage
<1> HIDE DEF B
<1>6. CodePinned(p, B)
  <2>1. \A a \in DOMAIN B : B[a].code # NoCode => a \in DOMAIN p.code
    BY <1>1, <1>2
  <2> QED
    BY <1>2, <1>3, <2>1 DEF CodePinned
<1>7. ASSUME NEW a \in DOMAIN B, NEW s \in Slot, B[a].storage[s] # 0
      PROVE  InNamespace(p, a, s) /\ (a \in DOMAIN S \/ Writable(p, a, s))
  <2>1. SlotAt(B, a, s) # 0
    BY <1>7 DEF SlotAt, RecordAt
  <2>2. CASE SlotAt(S, a, s) = SlotAt(B, a, s)
    <3>1. a \in DOMAIN S /\ S[a].storage[s] # 0
      BY <1>5, <2>1, <2>2 DEF SlotAt, RecordAt
    <3> QED
      BY <1>4, <3>1
  <2>3. CASE SlotAt(S, a, s) # SlotAt(B, a, s)
    <3>1. Writable(p, a, s)
      BY <1>3, <2>3
    <3> QED
      BY <3>1 DEF Writable, InNamespace
  <2> QED
    BY <2>2, <2>3
<1>8. StorageOk(p, B)
  BY <1>4, <1>7 DEF StorageOk
<1>9. ASSUME NEW a \in DOMAIN B, a \notin DOMAIN S, NEW s \in Slot PROVE B[a].storage[s] = 0
  <2> SUFFICES ASSUME B[a].storage[s] # 0 PROVE FALSE
    OBVIOUS
  <2>1. Writable(p, a, s)
    BY <1>7, <1>9
  <2> QED
    BY <1>2, <1>4, <1>9, <2>1 DEF Writable
<1>10. Solid(B)
  <2>1. ASSUME NEW a \in DOMAIN B PROVE B[a].live \/ B[a].code # NoCode
    <3>1. CASE a \in DOMAIN S
      BY <1>1, <3>1
    <3>2. CASE a \notin DOMAIN S
      BY <1>1, <1>9, <3>2 DEF Nonblank
    <3> QED
      BY <3>1, <3>2
  <2> QED
    BY <2>1 DEF Solid
<1> QED
  BY <1>6, <1>8, <1>10 DEF B

\* Accounts that fit and are not blank have a witness that opens to them.
LEMMA OwnWitness ==
    ASSUME NEW A, AccountsOK(A), Solid(A), Fits(A), NEW w,
           w = [a \in DOMAIN A |-> Entry(A[a], {})]
    PROVE  CompactOk(w) /\ FromCompact(w).accounts = A
<1> DEFINE used(a) == {s \in Slot : A[a].storage[s] # 0}
<1>1. DOMAIN w = DOMAIN A /\ \A a \in DOMAIN A : w[a] = Entry(A[a], {})
  OBVIOUS
<1>2. ASSUME NEW a \in DOMAIN A
      PROVE  /\ w[a].exists = ~IsEmpty(A[a]) /\ w[a].live = A[a].live /\ w[a].code = A[a].code
             /\ DOMAIN w[a].slots = used(a)
             /\ \A s \in used(a) : w[a].slots[s] = A[a].storage[s]
  <2> DEFINE U == {s \in Slot : A[a].storage[s] # 0} \cup {}
  <2>1. U = used(a)
    OBVIOUS
  <2>2. w[a] = [exists |-> ~IsEmpty(A[a]), live |-> A[a].live, code |-> A[a].code,
                slots |-> Restrict(A[a].storage, U)]
    BY <1>1 DEF Entry
  <2>3. DOMAIN Restrict(A[a].storage, U) = U /\ \A s \in U : Restrict(A[a].storage, U)[s] = A[a].storage[s]
    BY DEF Restrict
  <2> HIDE DEF U
  <2>4. /\ w[a].exists = ~IsEmpty(A[a]) /\ w[a].live = A[a].live /\ w[a].code = A[a].code
        /\ w[a].slots = Restrict(A[a].storage, U)
    BY <2>2, SMT
  <2> HIDE DEF used
  <2> QED
    BY <2>1, <2>3, <2>4
<1>3. ASSUME NEW a \in DOMAIN A PROVE w[a].exists /\ (w[a].live \/ w[a].code # NoCode)
  <2>1. ~IsEmpty(A[a])
    BY DEF AccountsOK
  <2> QED
    BY <1>2, <2>1 DEF Solid
<1> HIDE DEF used
<1>4. DeclaredSlots(w) = UsedSlots(A)
  <2>1. ASSUME NEW u
        PROVE u \in DeclaredSlots(w) <=> \E a \in DOMAIN A : \E s \in used(a) : u = <<a, s>>
    <3>1. u \in DeclaredSlots(w) <=> \E a \in DOMAIN w : \E s \in DOMAIN w[a].slots : u = <<a, s>>
      BY SMT DEF DeclaredSlots
    <3> QED
      BY <1>1, <1>2, <3>1
  <2>2. ASSUME NEW u
        PROVE u \in UsedSlots(A) <=> \E a \in DOMAIN A : \E s \in used(a) : u = <<a, s>>
    BY SMT DEF UsedSlots, used
  <2>3. \A u : u \in DeclaredSlots(w) <=> u \in UsedSlots(A)
    BY <2>1, <2>2
  <2> QED
    BY <2>3
<1>5. CompactOk(w)
  BY <1>1, <1>3, <1>4 DEF CompactOk, Fits
<1>6. {x \in DOMAIN w : w[x].exists} = DOMAIN A
  BY <1>1, <1>3
<1>7. ASSUME NEW a \in DOMAIN A
      PROVE  [live |-> w[a].live, code |-> w[a].code,
              storage |-> [s \in Slot |->
                 IF s \in DOMAIN w[a].slots THEN w[a].slots[s] ELSE 0]] = A[a]
  <2>1. ASSUME NEW s \in Slot
        PROVE  (IF s \in DOMAIN w[a].slots THEN w[a].slots[s] ELSE 0) = A[a].storage[s]
    BY <1>2 DEF used
  <2>2. [s \in Slot |-> IF s \in DOMAIN w[a].slots THEN w[a].slots[s] ELSE 0]
          = [s \in Slot |-> A[a].storage[s]]
    BY <2>1
  <2>3. A[a] = [live |-> A[a].live, code |-> A[a].code, storage |-> [s \in Slot |-> A[a].storage[s]]]
    BY DEF AccountsOK, RecordOK
  <2> QED
    BY <1>2, <2>2, <2>3
<1>8. FromCompact(w).accounts
        = [a \in {x \in DOMAIN w : w[x].exists} |->
             [live |-> w[a].live, code |-> w[a].code,
              storage |-> [s \in Slot |-> IF s \in DOMAIN w[a].slots THEN w[a].slots[s] ELSE 0]]]
  BY SMT DEF FromCompact
<1>9. FromCompact(w).accounts = [a \in DOMAIN A |-> A[a]]
  BY <1>6, <1>7, <1>8
<1>10. A = [a \in DOMAIN A |-> A[a]]
  BY DEF AccountsOK
<1> QED
  BY <1>5, <1>9, <1>10

\* What from_v5 found is still so while policy, room and accounts stay.
LEMMA Undisturbed ==
    ASSUME UNCHANGED <<policy, room, truth>>
    PROVE  (Opened => Opened') /\ (Unwritten => Unwritten')
<1>1. policy' = policy /\ room' = room /\ truth' = truth
  OBVIOUS
<1>2. ParticipantsAt(truth)' = ParticipantsAt(truth)
  BY <1>1 DEF ParticipantsAt
<1>3. ParticipantsAt(Genesis)' = ParticipantsAt(Genesis)
  BY <1>1 DEF ParticipantsAt
<1>4. ParticipantsOk(truth)' <=> ParticipantsOk(truth)
  BY <1>1, <1>2 DEF ParticipantsOk
<1>5. Unwritten => Unwritten'
  BY <1>1 DEF Unwritten
<1>6. Opened => Opened'
  BY <1>1, <1>2, <1>3, <1>4 DEF Opened
<1> QED
  BY <1>5, <1>6

\* A batch in its blocks, with another state.
LEMMA BlocksGoOn ==
    ASSUME Kept, UNCHANGED <<policy, room, truth>>, job # Nothing, job.pc = "blocks",
           DOMAIN job' = OpenedFields, job'.pc = "blocks", job'.opened = job.opened,
           job'.snapshot = job.snapshot, Running(job.snapshot, job'.state)
    PROVE  Kept'
<1>1. policy' = policy /\ room' = room /\ truth' = truth
  OBVIOUS
<1>2. InBlocks /\ room # Nothing /\ Opened /\ Unwritten /\ AccountsOK(truth) /\ policy \in Policies
  BY DEF Kept
<1>3. Opened' /\ Unwritten'
  BY <1>2, Undisturbed
<1>4. ParticipantsAt(job.snapshot)' = ParticipantsAt(job'.snapshot)
  BY <1>1 DEF ParticipantsAt
<1>5. InBlocks'
  BY <1>1, <1>2, <1>4 DEF InBlocks, ParticipantsAt
<1> QED
  BY <1>1, <1>2, <1>3, <1>5 DEF Kept

\* The first state of a room is the template's, whatever witness it was shown with.
LEMMA RegisterKeeps == Kept /\ Register => Kept'
<1> SUFFICES ASSUME Kept, Register PROVE Kept'
  OBVIOUS
<1> DEFINE c == policy.commitment
<1>1. policy \in Policies /\ job' = Nothing /\ policy' = policy /\ truth' = Genesis
  BY DEF Kept, Register
<1>2. PICK w \in Witnesses(Genesis) :
        /\ CompactOk(w) /\ RoomStateRoot(FromCompact(w), c) = InitialRoot
        /\ FromV5(policy, policy, {Nothing}, FromCompact(w).accounts)
  BY DEF Register
<1>3. AccountsOK(Genesis) /\ DOMAIN Genesis \subseteq Addr
  BY StateAssumption DEF AccountsOK
<1>4. DeclaresWords(w)
  BY <1>1, <1>3, WitnessWords
<1> DEFINE A == FromCompact(w).accounts
<1>5. AccountsOK(A)
  BY <1>2, <1>4, CompactOpens DEF DeclaresWords
<1>6. c \in {0, 1}
  <2>1. Bounded(policy)
    BY <1>2 DEF FromV5
  <2> QED
    BY <2>1, Layout
<1>7. RoomStateRoot(FromCompact(w), c) = RootOf(A, c)
  BY <1>5, <1>6, RootHashes
<1>8. InitialRoot = RootOf(Genesis, c)
  <2> DEFINE st == [accounts |-> Genesis, prepared |-> <<>>]
  <2>1. st.accounts = Genesis
    OBVIOUS
  <2>2. InitialRoot = RoomStateRoot(st, c)
    BY DEF InitialRoot
  <2> HIDE DEF st, c
  <2>3. RoomStateRoot(st, c) = RootOf(st.accounts, c)
    BY <1>3, <1>6, <2>1, RootHashes
  <2> QED
    BY <2>1, <2>2, <2>3
<1>9. A = Genesis
  <2> HIDE DEF A
  <2>1. RootOf(A, c) = RootOf(Genesis, c)
    BY <1>2, <1>7, <1>8
  <2> QED
    BY <1>3, <1>5, <1>6, <2>1, RootBinds
<1>10. FromV5(policy, policy, {Nothing}, Genesis)
  BY <1>2, <1>9
<1>11. Certified(policy) /\ CodePinned(policy, Genesis) /\ StorageOk(policy, Genesis)
  BY <1>10 DEF FromV5, Certified, StorageOk
<1>12. /\ DOMAIN room' = RoomFields /\ room'.batch = 0 /\ room'.root = InitialRoot
       /\ room'.participants = ParticipantsAt(Genesis)
  <2>1. PICK mode, capacity :
          room' = [mode |-> mode, batch |-> 0, closed |-> FALSE, root |-> InitialRoot,
                   participants |-> ParticipantsAt(Genesis),
                   rosterRoot |-> IF mode = 0 THEN RosterRoot(FirstRoster, capacity) ELSE <<>>,
                   epoch |-> 1, cursor |-> 0, imports |-> 0]
    BY DEF Register
  <2> QED
    BY <2>1, SMT DEF RoomFields
<1>13. Unwritten'
  <2>1. \A a \in DOMAIN Genesis : \A s \in Slot : SlotAt(Genesis, a, s) = Genesis[a].storage[s]
    BY DEF SlotAt, RecordAt
  <2> QED
    BY <1>1, <2>1 DEF Unwritten
<1>14. ParticipantsAt(truth)' = ParticipantsAt(Genesis) /\ ParticipantsAt(Genesis)' = ParticipantsAt(Genesis)
  BY <1>1 DEF ParticipantsAt
<1>15. room'.batch \in Nat /\ ~(room'.batch > 0)
  BY <1>12, SMT
<1>16. room'.root = RootOf(Genesis, c)
  BY <1>8, <1>12
<1>17. Opened'
  BY <1>1, <1>11, <1>12, <1>14, <1>15, <1>16 DEF Opened
<1> QED
  BY <1>1, <1>3, <1>13, <1>17 DEF Kept

\* The blocks of a batch start on the room's accounts, with what imports and deposits
\* supply.
LEMMA OpenKeeps == Kept /\ OpenState => Kept'
<1> SUFFICES ASSUME Kept, OpenState PROVE Kept'
  OBVIOUS
<1>1. /\ policy \in Policies /\ AccountsOK(truth) /\ Unwritten /\ room # Nothing /\ Opened
      /\ policy' = policy /\ room' = room /\ truth' = truth
  BY DEF Kept, OpenState
<1> DEFINE Opens(w) == FromCompact(w)
           Imports(w, import) == IF import THEN Imported(Opens(w)) ELSE Opens(w)
           Credits(w, import, deposit) ==
             IF deposit THEN Credited(Imports(w, import)) ELSE Imports(w, import)
           c == policy.commitment
<1>2. PICK w \in Witnesses(truth), import \in BOOLEAN, deposit \in BOOLEAN :
        /\ CompactOk(w)
        /\ RoomStateRoot(Opens(w), c) = room.root
        /\ ParticipantsOk(Opens(w).accounts)
        /\ ParticipantsAt(Opens(w).accounts) = room.participants
        /\ import => policy.imports # {} /\ ImportOk(Opens(w))
        /\ deposit => CreditOk(Imports(w, import))
        /\ FromV5(policy, policy, job.callers, Credits(w, import, deposit).accounts)
        /\ CanPrepare(Credits(w, import, deposit), policy.code)
        /\ job' = [pc |-> "blocks", body |-> job.body, close |-> job.close,
                   callers |-> job.callers, opening |-> job.opening,
                   expected |-> job.expected, changes |-> job.changes,
                   paid |-> job.paid, capacity |-> job.capacity,
                   import |-> import,
                   opened |-> Opens(w).accounts,
                   snapshot |-> Credits(w, import, deposit).accounts,
                   state |-> [Credits(w, import, deposit) EXCEPT !.prepared = policy.code],
                   block |-> 0, tx |-> 0, gas |-> 0, ran |-> {}]
  BY DEF OpenState
<1> DEFINE opened == Opens(w)
           imported == Imports(w, import)
           credited == Credits(w, import, deposit)
<1> HIDE DEF Opens, Imports, Credits
<1>3. /\ CompactOk(w) /\ RoomStateRoot(opened, c) = room.root
      /\ import => ImportOk(opened)
      /\ deposit => CreditOk(imported)
      /\ FromV5(policy, policy, job.callers, credited.accounts)
  BY <1>2
<1>4. /\ job'.pc = "blocks" /\ DOMAIN job' = OpenedFields /\ job'.opened = opened.accounts
      /\ job'.snapshot = credited.accounts
      /\ job'.state = [credited EXCEPT !.prepared = policy.code]
  <2> DEFINE st == [credited EXCEPT !.prepared = policy.code]
  <2>1. job' = [pc |-> "blocks", body |-> job.body, close |-> job.close,
                callers |-> job.callers, opening |-> job.opening,
                expected |-> job.expected, changes |-> job.changes,
                paid |-> job.paid, capacity |-> job.capacity,
                import |-> import,
                opened |-> opened.accounts, snapshot |-> credited.accounts,
                state |-> st,
                block |-> 0, tx |-> 0, gas |-> 0, ran |-> {}]
    BY <1>2
  <2> HIDE DEF st
  <2> SUFFICES /\ job'.pc = "blocks" /\ DOMAIN job' = OpenedFields /\ job'.opened = opened.accounts
               /\ job'.snapshot = credited.accounts /\ job'.state = st
    BY DEF st
  <2> HIDE DEF opened, credited
  <2> QED
    BY <2>1, SMT DEF OpenedFields
<1>5. DeclaresWords(w)
  BY <1>1, WitnessWords DEF AccountsOK
<1>6. PICK o, i, d : o = opened /\ i = imported /\ d = credited
  OBVIOUS
<1>7. Loaded(d) /\ Supplied(policy.imports, o.accounts, d.accounts)
  <2>1. /\ o = FromCompact(w) /\ i = IF import THEN Imported(o) ELSE o
        /\ d = IF deposit THEN Credited(i) ELSE i
    BY <1>6 DEF Opens, Imports, Credits
  <2> HIDE DEF opened, imported, credited
  <2>2. CompactOk(w) /\ (import => ImportOk(o)) /\ (deposit => CreditOk(i))
    BY <1>3, <1>6
  <2> QED
    BY <1>5, <2>1, <2>2, OpenLoads
<1>8. AccountsOK(o.accounts)
  BY <1>3, <1>5, <1>6, CompactOpens DEF DeclaresWords, Opens
<1> HIDE DEF opened, imported, credited
<1>9. c \in {0, 1}
  BY <1>1, Layout DEF Opened, Certified
<1>10. o.accounts = truth
  <2>1. RoomStateRoot(o, c) = RootOf(o.accounts, c)
    BY <1>8, <1>9, RootHashes
  <2>2. room.root = RootOf(truth, c)
    BY <1>1 DEF Opened
  <2>3. RootOf(o.accounts, c) = RootOf(truth, c)
    BY <1>3, <1>6, <2>1, <2>2
  <2> HIDE DEF c
  <2> QED
    BY <1>1, <1>8, <1>9, <2>3, RootBinds
<1>11. CodePinned(policy, d.accounts) /\ StorageOk(policy, d.accounts)
  BY <1>3, <1>6 DEF FromV5
<1>12. Running(d.accounts, [d EXCEPT !.prepared = policy.code])
  BY <1>7, LoadedRuns
<1>13. Running(job'.snapshot, job'.state)
  BY <1>4, <1>6, <1>12
<1>14. Supplied(policy.imports, truth, d.accounts)
  BY <1>7, <1>10
<1>15. ParticipantsAt(d.accounts) = room.participants
  BY <1>1, <1>14, SuppliedParticipants DEF Opened
<1>16. job'.opened = truth /\ job'.snapshot = d.accounts
  BY <1>4, <1>6, <1>10
<1>17. ParticipantsAt(job.snapshot)' = room.participants
  BY <1>1, <1>15, <1>16 DEF ParticipantsAt
<1>18. InBlocks'
  BY <1>1, <1>4, <1>11, <1>13, <1>14, <1>16, <1>17 DEF InBlocks
<1>19. Opened' /\ Unwritten'
  BY <1>1, Undisturbed
<1> QED
  BY <1>1, <1>4, <1>18, <1>19 DEF Kept

\* A certified policy lets no transaction create a contract.
LEMMA CreatesNothing ==
    ASSUME NEW p, Certified(p), NEW members, NEW tx, InspectorSilent(p, members, tx)
    PROVE  tx.creates = {}
<1>1. ~p.creation
  BY DEF Certified, Bounded
<1> QED
  BY <1>1 DEF InspectorSilent, LifecycleAllowed

\* A transaction stays within what the batch declared.
LEMMA TxKeeps == Kept /\ ExecuteTx => Kept'
<1> SUFFICES ASSUME Kept, ExecuteTx PROVE Kept'
  OBVIOUS
<1> DEFINE tx == CurrentTxs[job.tx + 1]
           changes == Changes(job.state, tx)
<1>1. /\ job # Nothing /\ job.pc = "blocks" /\ InspectorSilent(policy, job.callers, tx)
      /\ CommitAllowed(job.state, changes)
      /\ job' = [job EXCEPT !.state = Commit(@, changes), !.tx = @ + 1,
                            !.gas = @ + tx.gas, !.ran = @ \cup {tx}]
      /\ UNCHANGED <<policy, room, truth>>
  BY DEF ExecuteTx, InBlock
<1>2. InBlocks /\ room # Nothing /\ Opened
  BY <1>1 DEF Kept
<1>3. tx.creates = {}
  <2> HIDE DEF tx
  <2> QED
    BY <1>1, <1>2, CreatesNothing DEF Opened
<1>4. Running(job.snapshot, job.state) /\ DOMAIN job = OpenedFields
  BY <1>2 DEF InBlocks
<1>5. Running(job.snapshot, Commit(job.state, changes))
  <2> HIDE DEF tx
  <2>1. PICK cs : cs = changes
    OBVIOUS
  <2>2. Running(job.snapshot, Commit(job.state, cs))
    BY <1>1, <1>3, <1>4, <2>1, TxRuns
  <2> HIDE DEF changes
  <2> QED
    BY <2>1, <2>2
<1> HIDE DEF tx, changes
<1>6. /\ DOMAIN job' = OpenedFields /\ job'.pc = "blocks" /\ job'.opened = job.opened
      /\ job'.snapshot = job.snapshot /\ job'.state = Commit(job.state, changes)
  BY <1>1, <1>4, SMT DEF OpenedFields
<1>7. Running(job.snapshot, job'.state)
  BY <1>5, <1>6
<1> QED
  BY <1>1, <1>6, <1>7, BlocksGoOn

\* Steps that leave the room and its accounts alone and run no block.
LEMMA IdleKeeps ==
    ASSUME Kept, UNCHANGED <<policy, room, truth>>, room = Nothing => job' = Nothing,
           job' # Nothing => \/ job'.pc = "roster" /\ DOMAIN job' = StartedFields
                             \/ job' = job
    PROVE  Kept'
<1>1. policy' = policy /\ room' = room /\ truth' = truth
  OBVIOUS
<1>2. policy \in Policies /\ AccountsOK(truth) /\ Unwritten /\ (room # Nothing => Opened)
  BY DEF Kept
<1>3. Unwritten' /\ (room # Nothing => Opened')
  BY <1>2, Undisturbed
<1>4. CASE job' = Nothing
  BY <1>1, <1>2, <1>3, <1>4 DEF Kept
<1>5. CASE job' # Nothing /\ job'.pc = "roster" /\ DOMAIN job' = StartedFields
  <2>1. job'.pc # "blocks"
    BY <1>5, SMT
  <2> QED
    BY <1>1, <1>2, <1>3, <1>5, <2>1 DEF Kept
<1>6. CASE job' # Nothing /\ job' = job
  <2>1. job # Nothing
    BY <1>6
  <2>2. /\ job.pc \in {"roster", "blocks"}
        /\ job.pc = "roster" => DOMAIN job = StartedFields
        /\ job.pc = "blocks" => InBlocks
    BY <2>1 DEF Kept
  <2>3. InBlocks => InBlocks'
    BY <1>1, <1>6 DEF InBlocks, ParticipantsAt
  <2> QED
    BY <1>1, <1>2, <1>3, <1>6, <2>2, <2>3 DEF Kept
<1> QED
  BY <1>4, <1>5, <1>6

\* The head of a batch leaves the accounts alone.
LEMMA StartKeeps == Kept /\ StartBatch => Kept'
<1> SUFFICES ASSUME Kept, StartBatch PROVE Kept'
  OBVIOUS
<1>1. UNCHANGED <<policy, room, truth>> /\ room # Nothing
  BY DEF StartBatch
<1> DEFINE Started(body, close, callers, expected, changes, paid, capacity) ==
             [pc |-> "roster", body |-> body, close |-> close,
              callers |-> callers, opening |-> expected, expected |-> expected,
              changes |-> changes, applied |-> 0, paid |-> paid, capacity |-> capacity]
<1>2. ASSUME NEW body, NEW close, NEW callers, NEW expected, NEW changes, NEW paid, NEW capacity,
             job' = Started(body, close, callers, expected, changes, paid, capacity)
      PROVE  job'.pc = "roster" /\ DOMAIN job' = StartedFields
  BY <1>2, SMT DEF StartedFields
<1> HIDE DEF Started
<1>3. job'.pc = "roster" /\ DOMAIN job' = StartedFields
  <2>1. PICK body \in Bodies[policy], close \in BOOLEAN :
          /\ Len(body) \in 1..policy.maxBlocks
          /\ Len(body) = 1 => close
          /\ \/ /\ room.mode = 1 /\ Signers(body) # {}
                /\ job' = Started(body, close, Signers(body), <<>>, <<>>, {}, 0)
             \/ /\ room.mode = 0
                /\ \E list \in RosterLists, capacity \in Capacities,
                      changes \in UNION {[1..n -> Range(queue)] : n \in 0..Len(queue)} :
                     /\ ActiveRosterOk(list, capacity, room.rosterRoot)
                     /\ Contiguous(changes)
                     /\ \E paid \in Allocations(changes) :
                          job' = Started(body, close, Callers(list, changes), RosterMap(list),
                                         changes, paid, capacity)
    BY DEF StartBatch, Started
  <2>2. CASE room.mode = 0
    BY <1>2, <2>1
  <2> QED
    BY <1>2, <2>1, <2>2
<1> QED
  BY <1>1, <1>3, IdleKeeps

\* A roster change leaves the accounts alone.
LEMMA ApplyKeeps == Kept /\ ApplyChange => Kept'
<1> SUFFICES ASSUME Kept, ApplyChange PROVE Kept'
  OBVIOUS
<1> DEFINE change == job.changes[job.applied + 1]
<1>1. /\ UNCHANGED <<policy, room, truth>> /\ job # Nothing /\ job.pc = "roster"
      /\ job' = [job EXCEPT !.expected = Changed(@, change), !.applied = @ + 1]
  BY DEF ApplyChange
<1>2. room # Nothing /\ DOMAIN job = StartedFields
  BY <1>1 DEF Kept
<1> HIDE DEF change
<1>3. job'.pc = "roster" /\ DOMAIN job' = StartedFields
  BY <1>1, <1>2, SMT DEF StartedFields
<1> QED
  BY <1>1, <1>2, <1>3, IdleKeeps

\* So does the head of a block.
LEMMA EnterKeeps == Kept /\ EnterBlock => Kept'
<1> SUFFICES ASSUME Kept, EnterBlock PROVE Kept'
  OBVIOUS
<1>1. /\ UNCHANGED <<policy, room, truth>> /\ job # Nothing /\ job.pc = "blocks"
      /\ job' = [job EXCEPT !.block = @ + 1, !.tx = 0, !.gas = 0]
  BY DEF EnterBlock
<1>2. DOMAIN job = OpenedFields /\ Running(job.snapshot, job.state)
  BY <1>1 DEF Kept, InBlocks
<1>3. /\ DOMAIN job' = OpenedFields /\ job'.pc = "blocks" /\ job'.opened = job.opened
      /\ job'.snapshot = job.snapshot /\ job'.state = job.state
  BY <1>1, <1>2, SMT DEF OpenedFields
<1>4. Running(job.snapshot, job'.state)
  BY <1>2, <1>3
<1> QED
  BY <1>1, <1>3, <1>4, BlocksGoOn

(***************************************************************************)
(* The roster of a room and of its batch.                                  *)
(***************************************************************************)

\* Positions are numbers, and each holds a member with the epoch it joined in.
IsRoster(r) ==
    /\ IsFiniteSet(DOMAIN r) /\ DOMAIN r \subseteq Nat
    /\ r = [i \in DOMAIN r |-> [member |-> r[i].member, joined |-> r[i].joined]]
    /\ \A i \in DOMAIN r : r[i].joined \in Nat

\* The leaves of the tree of a roster.
TreeOf(r, c) ==
    [p \in 1..c |-> IF p - 1 \in DOMAIN r THEN <<p - 1, r[p - 1].member, r[p - 1].joined>>
                    ELSE ZeroLeaf]

\* roster_root_v5 accepts the roster at this capacity.
Placed(r, c) == \A i \in DOMAIN r : i < c /\ r[i].joined # 0

\* The rosters after the first requests of a queue.
After(f, q, n) ==
    f = [k \in 0..n |-> IF k = 0 THEN RosterMap(FirstRoster) ELSE Changed(f[k - 1], q[k])]

\* The roster after the first n requests of a queue.
ReplayOn(q, n) ==
    LET after[k \in 0..n] ==
          IF k = 0 THEN RosterMap(FirstRoster) ELSE Changed(after[k - 1], q[k])
    IN after[n]

\* The requests of the queue are numbered in order.
Queued(q) ==
    /\ Len(q) \in Nat /\ ListOf(q, Len(q))
    /\ \A i \in DOMAIN q : q[i].id = i /\ q[i].index \in Nat /\ q[i].joined \in Nat

\* The roster of a unanimous room.
Seated(rm, r, q, leaves) ==
    /\ IsRoster(r) /\ Unique(r)
    /\ \E c \in Capacities : Placed(r, c) /\ rm.rosterRoot = PositionalRoot(TreeOf(r, c))
    /\ rm.epoch \in Nat /\ rm.cursor \in 0..Len(q)
    /\ r = ReplayOn(q, rm.cursor)
    /\ \A i \in DOMAIN r : r[i].joined <= rm.epoch
    /\ \A k \in 1..rm.cursor : q[k].action = "remove" => q[k].commitment \in leaves

\* Changes that the batch has applied.
Applied(j) == IF j.pc = "roster" THEN j.applied ELSE Len(j.changes)

\* The epoch that the batch opens.
NextEpoch(j, rm) == rm.epoch + (IF j.changes = <<>> THEN 0 ELSE 1)

\* The roster that a batch of such a room works on.
Seating(j, rm, r, q) ==
    /\ j.opening = r /\ j.callers = MembersOf(r) /\ j.capacity \in Capacities
    /\ IsRoster(j.expected) /\ Unique(j.expected)
    /\ \A i \in DOMAIN j.expected : j.expected[i].joined <= NextEpoch(j, rm)
    /\ Len(j.changes) \in Nat /\ DOMAIN j.changes = 1..Len(j.changes)
    /\ rm.cursor + Len(j.changes) <= Len(q)
    /\ \A k \in DOMAIN j.changes : j.changes[k] = q[rm.cursor + k]
    /\ Applied(j) \in 0..Len(j.changes)
    /\ j.expected = ReplayOn(q, rm.cursor + Applied(j))
    /\ \A k \in 1..Applied(j) : j.changes[k].action = "remove" =>
         j.changes[k].commitment \in {WithdrawalLeaf(rm.batch + 1, w) : w \in j.paid}

\* The body of a batch, and who sent what ran of it.
Bodied(j, rm, p) ==
    /\ j.body \in Bodies[p]
    /\ j.pc = "blocks" =>
         /\ j.block \in 0..Len(j.body) /\ j.tx \in Nat
         /\ rm.mode = 0 => \A t \in j.ran : t.from \in j.callers

\* A job in its blocks has applied all its changes.
LEMMA SameApplied ==
    ASSUME NEW j, NEW i, SameBatch(j, i), j.pc = "blocks", i.pc = "blocks"
    PROVE  Applied(j) = Applied(i)
<1>1. j.pc # "roster" /\ i.pc # "roster"
  OBVIOUS
<1>2. j.changes = i.changes
  BY DEF SameBatch
<1> QED
  BY <1>1, <1>2 DEF Applied

\* A batch that carries on keeps its seating.
LEMMA SeatingGoesOn ==
    ASSUME NEW j, NEW i, NEW rm, NEW r, NEW q, Seating(i, rm, r, q), SameBatch(j, i),
           Applied(j) = Applied(i)
    PROVE  Seating(j, rm, r, q)
<1>1. NextEpoch(j, rm) = NextEpoch(i, rm)
  BY DEF NextEpoch, SameBatch
<1> QED
  BY <1>1 DEF Seating, SameBatch

\* The epoch that a batch opens.
LEMMA EpochMoves ==
    ASSUME NEW j, NEW rm, rm.epoch \in Nat
    PROVE  NextEpoch(j, rm) \in Nat /\ \A x \in Nat : x <= rm.epoch => x <= NextEpoch(j, rm)
<1>1. NextEpoch(j, rm) = rm.epoch + 0 \/ NextEpoch(j, rm) = rm.epoch + 1
  BY DEF NextEpoch
<1>2. rm.epoch + 0 \in Nat /\ rm.epoch + 1 \in Nat
  BY SMT
<1> QED
  BY <1>1, <1>2, NoLarger

\* The range of requests that a batch carries is the one behind the cursor.
LEMMA StartSeats ==
    ASSUME NEW q, Queued(q), NEW rm, NEW r, NEW leaves, Seated(rm, r, q, leaves),
           NEW changes \in UNION {[1..n -> Range(q)] : n \in 0..Len(q)},
           \A k \in DOMAIN changes : changes[k].id = rm.cursor + k,
           NEW capacity \in Capacities, NEW body, NEW paid,
           NEW j, Starts(j, body, MembersOf(r), r, changes, paid, capacity)
    PROVE  Seating(j, rm, r, q)
<1>1. PICK n \in 0..Len(q) : changes \in [1..n -> Range(q)]
  OBVIOUS
<1>2. Len(q) \in Nat /\ DOMAIN q = 1..Len(q) /\ \A i \in DOMAIN q : q[i].id = i
  BY DEF Queued, ListOf
<1>3. n \in Nat
  BY <1>2, SMT
<1>4. Len(changes) = n /\ DOMAIN changes = 1..n
  <2>1. DOMAIN changes = 1..n /\ changes = [k \in 1..n |-> changes[k]]
    BY <1>1
  <2> QED
    BY <1>3, <2>1, FnLen
<1>5. ASSUME NEW k \in 1..n PROVE changes[k] = q[rm.cursor + k] /\ rm.cursor + k \in 1..Len(q)
  <2>1. PICK i \in DOMAIN q : changes[k] = q[i]
    <3>1. changes[k] \in Range(q)
      BY <1>1
    <3> QED
      BY <3>1 DEF Range
  <2>2. i = rm.cursor + k
    BY <1>2, <1>4, <2>1
  <2> QED
    BY <1>2, <2>1, <2>2
<1>6. rm.cursor \in 0..Len(q) /\ rm.epoch \in Nat
  BY DEF Seated
<1>7. rm.cursor + n <= Len(q) /\ 0 \in 0..n /\ rm.cursor + 0 = rm.cursor
  <2>1. CASE n = 0
    BY <1>2, <1>6, <2>1, SMT
  <2>2. CASE n # 0
    <3>1. n \in 1..n
      BY <1>3, <2>2, SMT
    <3>2. rm.cursor + n \in 1..Len(q)
      BY <1>5, <3>1
    <3> QED
      BY <1>2, <1>3, <1>6, <3>2, SMT
  <2> QED
    BY <2>1, <2>2
<1>8. /\ IsRoster(r) /\ Unique(r) /\ r = ReplayOn(q, rm.cursor)
      /\ \A i \in DOMAIN r : r[i].joined \in Nat /\ r[i].joined <= rm.epoch
  BY DEF Seated, IsRoster
<1>9. \A i \in DOMAIN r : r[i].joined <= NextEpoch(j, rm)
  BY <1>6, <1>8, EpochMoves
<1>10. /\ j.opening = r /\ j.callers = MembersOf(r) /\ j.capacity \in Capacities
       /\ j.expected = r /\ j.changes = changes
  BY DEF Starts
<1>11. Applied(j) = 0
  BY DEF Starts, Applied
<1>12. \A k \in 1..0 : FALSE
  BY SMT
<1>13. Len(j.changes) = n /\ DOMAIN j.changes = 1..n /\ \A k \in 1..n : j.changes[k] = q[rm.cursor + k]
  BY <1>4, <1>5, <1>10
<1>14. j.expected = ReplayOn(q, rm.cursor + Applied(j)) /\ Applied(j) \in 0..n
  BY <1>7, <1>8, <1>10, <1>11
<1>15. \A k \in 1..Applied(j) : FALSE
  BY <1>11, <1>12
<1> QED
  BY <1>3, <1>7, <1>8, <1>9, <1>10, <1>13, <1>14, <1>15 DEF Seating

\* The inductive invariant behind RosterIsReplay and GuestSeesTruth.
Led ==
    /\ Queued(queue)
    /\ job # Nothing => Bodied(job, room, policy)
    /\ room # Nothing /\ room.mode = 0 => Seated(room, roster, queue, outbox)
    /\ room # Nothing /\ room.mode = 0 /\ job # Nothing => Seating(job, room, roster, queue)

\* A step of a batch on its state that keeps its seating.
LEMMA GoesOnLed ==
    ASSUME Led, UNCHANGED <<policy, room, roster, queue, outbox>>, job # Nothing,
           SameBatch(job', job), Applied(job') = Applied(job), Bodied(job', room, policy)
    PROVE  Led'
<1>1. policy' = policy /\ room' = room /\ roster' = roster /\ queue' = queue /\ outbox' = outbox
  OBVIOUS
<1>2. room # Nothing /\ room.mode = 0 => Seating(job', room, roster, queue)
  <2> SUFFICES ASSUME room # Nothing, room.mode = 0 PROVE Seating(job', room, roster, queue)
    OBVIOUS
  <2>1. Seating(job, room, roster, queue)
    BY DEF Led
  <2> QED
    BY <2>1, SeatingGoesOn
<1> QED
  BY <1>1, <1>2 DEF Led

\* The opening of the state.
LEMMA OpenLed == Kept /\ Led /\ OpenState => Led'
<1> SUFFICES ASSUME Kept, Led, OpenState PROVE Led'
  OBVIOUS
<1>1. /\ UNCHANGED <<policy, room, roster, queue, outbox>> /\ job # Nothing
      /\ job.pc = "roster" /\ job.applied = Len(job.changes)
  BY DEF OpenState
<1> DEFINE Opens(w) == FromCompact(w)
           Imports(w, import) == IF import THEN Imported(Opens(w)) ELSE Opens(w)
           Credits(w, import, deposit) ==
             IF deposit THEN Credited(Imports(w, import)) ELSE Imports(w, import)
           c == policy.commitment
<1>2. PICK w \in Witnesses(truth), import \in BOOLEAN, deposit \in BOOLEAN :
        /\ CompactOk(w)
        /\ RoomStateRoot(Opens(w), c) = room.root
        /\ ParticipantsOk(Opens(w).accounts)
        /\ ParticipantsAt(Opens(w).accounts) = room.participants
        /\ import => policy.imports # {} /\ ImportOk(Opens(w))
        /\ deposit => CreditOk(Imports(w, import))
        /\ FromV5(policy, policy, job.callers, Credits(w, import, deposit).accounts)
        /\ CanPrepare(Credits(w, import, deposit), policy.code)
        /\ job' = [pc |-> "blocks", body |-> job.body, close |-> job.close,
                   callers |-> job.callers, opening |-> job.opening,
                   expected |-> job.expected, changes |-> job.changes,
                   paid |-> job.paid, capacity |-> job.capacity,
                   import |-> import,
                   opened |-> Opens(w).accounts,
                   snapshot |-> Credits(w, import, deposit).accounts,
                   state |-> [Credits(w, import, deposit) EXCEPT !.prepared = policy.code],
                   block |-> 0, tx |-> 0, gas |-> 0, ran |-> {}]
  BY DEF OpenState
<1> DEFINE opened == Opens(w).accounts
           snapshot == Credits(w, import, deposit).accounts
           state == [Credits(w, import, deposit) EXCEPT !.prepared = policy.code]
<1>3. job' = [pc |-> "blocks", body |-> job.body, close |-> job.close,
              callers |-> job.callers, opening |-> job.opening,
              expected |-> job.expected, changes |-> job.changes,
              paid |-> job.paid, capacity |-> job.capacity,
              import |-> import, opened |-> opened, snapshot |-> snapshot, state |-> state,
              block |-> 0, tx |-> 0, gas |-> 0, ran |-> {}]
  BY <1>2
<1> HIDE DEF opened, snapshot, state, Opens, Imports, Credits
<1>4. SameBatch(job', job) /\ job'.pc = "blocks" /\ job'.block = 0 /\ job'.tx = 0 /\ job'.ran = {}
  BY <1>3, OpenedRecord
<1>5. job.body \in Bodies[policy] /\ policy \in Policies
  BY <1>1 DEF Led, Bodied, Kept
<1>6. Bodied(job', room, policy)
  <2>1. Len(job.body) \in Nat
    BY <1>5, BodyAssumption
  <2>2. 0 \in 0..Len(job.body) /\ 0 \in Nat
    BY <2>1, SMT
  <2>3. job'.body = job.body
    BY <1>4 DEF SameBatch
  <2>4. job'.block \in 0..Len(job'.body) /\ job'.tx \in Nat
    BY <1>4, <2>2, <2>3
  <2>5. \A t \in job'.ran : t.from \in job'.callers
    BY <1>4
  <2> QED
    BY <1>5, <2>3, <2>4, <2>5 DEF Bodied
<1>7. Applied(job') = Applied(job)
  <2>1. Applied(job) = Len(job.changes)
    BY <1>1 DEF Applied
  <2>2. job'.pc # "roster"
    BY <1>4
  <2>3. job'.changes = job.changes
    BY <1>4 DEF SameBatch
  <2> QED
    BY <2>1, <2>2, <2>3 DEF Applied
<1> QED
  BY <1>1, <1>4, <1>6, <1>7, GoesOnLed

\* The head of a block.
LEMMA EnterLed == Kept /\ Led /\ EnterBlock => Led'
<1> SUFFICES ASSUME Kept, Led, EnterBlock PROVE Led'
  OBVIOUS
<1>1. /\ UNCHANGED <<policy, room, roster, queue, outbox>> /\ job # Nothing
      /\ job.pc = "blocks" /\ job.block < Len(job.body)
      /\ job' = [job EXCEPT !.block = job.block + 1, !.tx = 0, !.gas = 0]
  BY DEF EnterBlock
<1>2. DOMAIN job = OpenedFields /\ policy \in Policies
  BY <1>1 DEF Kept, InBlocks
<1>3. /\ SameBatch(job', job) /\ job'.pc = job.pc /\ job'.block = job.block + 1 /\ job'.tx = 0
      /\ job'.ran = job.ran
  <2>1. Proceeds(job', job, job.block + 1, 0, job.ran)
    BY <1>1, <1>2, EnteredRecord
  <2> QED
    BY <2>1 DEF Proceeds
<1>4. /\ job.body \in Bodies[policy] /\ job.block \in 0..Len(job.body)
      /\ room.mode = 0 => \A t \in job.ran : t.from \in job.callers
  BY <1>1 DEF Led, Bodied
<1>5. Bodied(job', room, policy)
  <2>1. Len(job.body) \in Nat
    BY <1>2, <1>4, BodyAssumption
  <2>2. job.block + 1 \in 0..Len(job.body) /\ 0 \in Nat
    BY <1>1, <1>4, <2>1, SMT
  <2>3. job'.body = job.body /\ job'.callers = job.callers
    BY <1>3 DEF SameBatch
  <2>4. job'.block \in 0..Len(job'.body) /\ job'.tx \in Nat
    BY <1>3, <2>2, <2>3
  <2>5. room.mode = 0 => \A t \in job'.ran : t.from \in job'.callers
    BY <1>3, <1>4, <2>3
  <2> QED
    BY <1>4, <2>3, <2>4, <2>5 DEF Bodied
<1>6. Applied(job') = Applied(job)
  BY <1>1, <1>3, SameApplied
<1> QED
  BY <1>1, <1>3, <1>5, <1>6, GoesOnLed

\* validate_transaction_entry admits members alone: a sender has no code, and the
\* rules are for members and for contracts.
LEMMA EntryByMember ==
    ASSUME NEW p, Certified(p), NEW members, NEW tx, tx.from \notin DOMAIN p.code \cup {Member},
           EntryAllowed(p, members, tx)
    PROVE  tx.from \in members
<1>1. ~p.creation /\ RulesOk(p)
  BY DEF Certified, Bounded
<1> DEFINE call == [caller |-> tx.from, target |-> tx.to, kind |-> "call", selector |-> tx.selector]
<1>2. AllowsCall(p, members, call)
  BY <1>1 DEF EntryAllowed
<1>3. call.caller = tx.from
  BY SMT
<1> HIDE DEF call
<1>4. tx.from \notin DOMAIN p.code /\ tx.from # Member
  OBVIOUS
<1>5. PICK rule \in p.rules : rule.caller = (IF call.caller \in members THEN Member ELSE call.caller)
  BY <1>2, <1>3, <1>4 DEF AllowsCall
<1>6. rule.caller = Member \/ rule.caller \in DOMAIN p.code
  BY <1>1 DEF RulesOk
<1> QED
  BY <1>3, <1>4, <1>5, <1>6

\* A transaction.
LEMMA TxLed == Kept /\ Led /\ ExecuteTx => Led'
<1> SUFFICES ASSUME Kept, Led, ExecuteTx PROVE Led'
  OBVIOUS
<1> DEFINE txs == job.body[job.block].txs
           tx == txs[job.tx + 1]
           st == Commit(job.state, Changes(job.state, tx))
<1>1. /\ UNCHANGED <<policy, room, roster, queue, outbox>> /\ job # Nothing
      /\ job.pc = "blocks" /\ job.block > 0 /\ job.tx < Len(txs)
      /\ EntryAllowed(policy, job.callers, tx)
      /\ job' = [job EXCEPT !.state = st, !.tx = job.tx + 1, !.gas = job.gas + tx.gas,
                            !.ran = job.ran \cup {tx}]
  BY DEF ExecuteTx, InBlock, CurrentTxs
<1>2. DOMAIN job = OpenedFields /\ policy \in Policies /\ Certified(policy)
  BY <1>1 DEF Kept, InBlocks, Opened
<1>3. /\ job.body \in Bodies[policy] /\ job.block \in 0..Len(job.body) /\ job.tx \in Nat
      /\ room.mode = 0 => \A t \in job.ran : t.from \in job.callers
  BY <1>1 DEF Led, Bodied
<1>4. DOMAIN job.body = 1..Len(job.body) /\ Len(job.body) \in Nat
  BY <1>2, <1>3, BodyAssumption
<1>5. job.block \in DOMAIN job.body
  <2>1. job.block \in 1..Len(job.body)
    BY <1>1, <1>3, <1>4, FromZero
  <2> QED
    BY <1>4, <2>1
<1>6. /\ DOMAIN txs = 1..Len(txs) /\ Len(txs) \in Nat
      /\ \A t \in Range(txs) : t.from \notin DOMAIN policy.code \cup {Member}
  BY <1>2, <1>3, <1>5, BodyAssumption
<1> HIDE DEF txs
<1>7. job.tx + 1 \in 1..Len(txs) /\ job.tx + 1 \in Nat
  BY <1>1, <1>3, <1>6, SMT
<1>8. tx \in Range(txs)
  BY <1>6, <1>7 DEF Range
<1> HIDE DEF tx, st
<1>9. tx.from \in job.callers
  BY <1>1, <1>2, <1>6, <1>8, EntryByMember
<1>10. /\ SameBatch(job', job) /\ job'.pc = job.pc /\ job'.block = job.block
       /\ job'.tx = job.tx + 1 /\ job'.ran = job.ran \cup {tx}
  <2> DEFINE gas == job.gas + tx.gas
             ran == job.ran \cup {tx}
             n == job.tx + 1
  <2>1. job' = [job EXCEPT !.state = st, !.tx = n, !.gas = gas, !.ran = ran]
    BY <1>1
  <2> HIDE DEF gas, ran, n
  <2>2. Proceeds(job', job, job.block, n, ran)
    BY <1>2, <2>1, ExecutedRecord
  <2> QED
    BY <2>2 DEF Proceeds, ran, n
<1>11. Bodied(job', room, policy)
  <2>1. job'.body = job.body /\ job'.callers = job.callers
    BY <1>10 DEF SameBatch
  <2>2. job'.block \in 0..Len(job'.body) /\ job'.tx \in Nat
    BY <1>3, <1>7, <1>10, <2>1
  <2>3. room.mode = 0 => \A t \in job'.ran : t.from \in job'.callers
    BY <1>3, <1>9, <1>10, <2>1
  <2> QED
    BY <1>3, <2>1, <2>2, <2>3 DEF Bodied
<1>12. Applied(job') = Applied(job)
  BY <1>1, <1>10, SameApplied
<1> QED
  BY <1>1, <1>10, <1>11, <1>12, GoesOnLed

(***************************************************************************)
(* Numbers and finite sets.                                                *)
(***************************************************************************)

\* What the proofs below need of numbers and finite sets: a set of numbers has a
\* least one, and the sizes of images, subsets, intervals and products.
Laws ==
    /\ \A T \in SUBSET Nat : T # {} => \E n \in T : \A m \in T : n <= m
    /\ \A S, T : \A f \in Surjection(S, T) : IsFiniteSet(S) => IsFiniteSet(T)
    /\ \A S, T : \A f \in Injection(S, T) : IsFiniteSet(T) =>
         (Cardinality(S) = Cardinality(T) <=> f \in Surjection(S, T))
    /\ \A S : IsFiniteSet(S) => /\ Cardinality(S) \in Nat
                                /\ \A T \in SUBSET S : /\ IsFiniteSet(T)
                                                       /\ Cardinality(T) <= Cardinality(S)
                                                       /\ Cardinality(S) = Cardinality(T) => S = T
    /\ \A a, b \in Int : /\ IsFiniteSet(a..b)
                         /\ Cardinality(a..b) = IF a > b THEN 0 ELSE b - a + 1
    /\ \A S, x : IsFiniteSet(S) => IsFiniteSet(S \cup {x})
    /\ \A S, T : IsFiniteSet(S) /\ IsFiniteSet(T) => IsFiniteSet(S \X T)

\* A set of numbers has a least one.
LEMMA LeastNat ==
    ASSUME Laws, NEW T \in SUBSET Nat, T # {}
    PROVE  \E n \in T : \A m \in T : n <= m
BY DEF Laws

\* The image of a finite set is finite.
LEMMA FiniteImage ==
    ASSUME Laws, NEW S, NEW T, NEW f \in Surjection(S, T), IsFiniteSet(S)
    PROVE  IsFiniteSet(T)
BY DEF Laws

\* An injection into a finite set of the same size reaches all of it.
LEMMA FiniteInjection ==
    ASSUME Laws, NEW S, NEW T, NEW f \in Injection(S, T), IsFiniteSet(T)
    PROVE  Cardinality(S) = Cardinality(T) <=> f \in Surjection(S, T)
BY DEF Laws

\* The size of a finite set is a number.
LEMMA FiniteSize ==
    ASSUME Laws, NEW S, IsFiniteSet(S)
    PROVE  Cardinality(S) \in Nat
BY DEF Laws

\* A subset is no larger, and as large only if it is the whole set.
LEMMA FiniteSubset ==
    ASSUME Laws, NEW S, IsFiniteSet(S), NEW T \in SUBSET S
    PROVE  /\ IsFiniteSet(T)
           /\ Cardinality(T) <= Cardinality(S)
           /\ Cardinality(S) = Cardinality(T) => S = T
BY DEF Laws

\* The size of an interval.
LEMMA FiniteRange ==
    ASSUME Laws, NEW a \in Int, NEW b \in Int
    PROVE  /\ IsFiniteSet(a..b)
           /\ Cardinality(a..b) = IF a > b THEN 0 ELSE b - a + 1
BY DEF Laws

\* One member more.
LEMMA FiniteAdd ==
    ASSUME Laws, NEW S, NEW x, IsFiniteSet(S)
    PROVE  IsFiniteSet(S \cup {x})
BY DEF Laws

\* Pairs of members of finite sets.
LEMMA FiniteProduct ==
    ASSUME Laws, NEW S, IsFiniteSet(S), NEW T, IsFiniteSet(T)
    PROVE  IsFiniteSet(S \X T)
BY DEF Laws

(***************************************************************************)
(* Positional trees.                                                       *)
(***************************************************************************)

\* The layers that the halving loop passes through.
Layers(f, leaves, n) ==
    f = [i \in 0..n |-> IF i = 0 THEN leaves ELSE Halved(f[i - 1])]

\* A number that is reached by doubling, with the chain that reaches it.
Chain(c, d, double) ==
    /\ d \in Nat /\ d <= c /\ DOMAIN double = 0..d
    /\ \A n \in 0..d : double[n] \in Nat \ {0}
    /\ double[0] = 1 /\ double[d] = c
    /\ \A n \in 1..d : double[n] = 2 * double[n - 1]

\* A power of two (u64::is_power_of_two) has such a chain.
LEMMA Chained ==
    ASSUME NEW c \in Nat \ {0}, PowerOfTwo(c)
    PROVE  \E d, double : Chain(c, d, double)
<1>0. PICK d \in 0..c : \E double \in [0..d -> 1..c] :
        /\ double[0] = 1 /\ double[d] = c
        /\ \A n \in 1..d : double[n] = 2 * double[n - 1]
  BY DEF PowerOfTwo
<1>1. PICK double \in [0..d -> 1..c] :
        /\ double[0] = 1 /\ double[d] = c
        /\ \A n \in 1..d : double[n] = 2 * double[n - 1]
  BY <1>0
<1>2. d \in Nat /\ d <= c
  BY <1>1, SMT
<1>3. DOMAIN double = 0..d /\ \A n \in 0..d : double[n] \in 1..c
  BY <1>1
<1>4. \A n \in 0..d : double[n] \in Nat \ {0}
  BY <1>3, SMT
<1>5. Chain(c, d, double)
  BY <1>1, <1>2, <1>3, <1>4 DEF Chain
<1> QED
  BY <1>5

\* A link of the chain.
Grows(double, n, d) ==
    /\ n \in 0..d /\ n - 1 \in 0..d /\ double[n] > 1 /\ double[n] = 2 * double[n - 1]
    /\ double[n] \in Nat /\ double[n - 1] \in Nat /\ double[n] \div 2 = double[n - 1]

\* Above its first number a chain is even and larger than one.
LEMMA ChainGrows ==
    ASSUME NEW c, NEW d, NEW double, Chain(c, d, double), NEW n \in 1..d
    PROVE  Grows(double, n, d)
<1>1. d \in Nat /\ n \in 0..d /\ n - 1 \in 0..d
  BY SMT DEF Chain
<1>2. double[n] \in Nat \ {0} /\ double[n - 1] \in Nat \ {0} /\ double[n] = 2 * double[n - 1]
  BY <1>1 DEF Chain
<1>3. PICK x, y : x = double[n] /\ y = double[n - 1]
  OBVIOUS
<1>4. x \in Nat /\ y \in Nat /\ x = 2 * y /\ y # 0
  BY <1>2, <1>3
<1>5. x > 1 /\ x \div 2 = y
  BY <1>4, SMT
<1> QED
  BY <1>1, <1>2, <1>3, <1>4, <1>5 DEF Grows

\* One round of the loop makes pairs.
LEMMA HalvedPairs ==
    ASSUME NEW f, NEW m \in Nat, NEW n \in Nat, n = 2 * m, ListOf(f, n)
    PROVE  /\ ListOf(Halved(f), m)
           /\ \A k \in 1..m : /\ Halved(f)[k] = <<f[2 * k - 1], f[2 * k]>>
                              /\ 2 * k - 1 \in 1..n /\ 2 * k \in 1..n
<1>1. Len(f) = n
  BY FnLen DEF ListOf
<1>2. n \div 2 = m
  BY SMT
<1>3. Halved(f) = [k \in 1..m |-> <<f[2 * k - 1], f[2 * k]>>]
  BY <1>1, <1>2 DEF Halved
<1>4. \A k \in 1..m : 2 * k - 1 \in 1..n /\ 2 * k \in 1..n
  BY SMT
<1>5. \A k \in 1..m : Halved(f)[k] = <<f[2 * k - 1], f[2 * k]>>
  BY <1>3
<1>6. DOMAIN Halved(f) = 1..m
  BY <1>3
<1>7. Halved(f) = [k \in 1..m |-> Halved(f)[k]]
  BY <1>3
<1> QED
  BY <1>4, <1>5, <1>6, <1>7 DEF ListOf

\* A pair is known by its parts.
LEMMA PairBinds ==
    \A w, x, y, z : <<w, x>> = <<y, z>> => w = y /\ x = z
BY SMT

\* A layer is known from the one above it.
LEMMA HalvesBind ==
    ASSUME NEW a, NEW b, NEW m \in Nat, NEW n \in Nat, n = 2 * m, ListOf(a, n), ListOf(b, n),
           Halved(a) = Halved(b)
    PROVE  a = b
<1>1. ASSUME NEW k \in 1..m PROVE a[2 * k - 1] = b[2 * k - 1] /\ a[2 * k] = b[2 * k]
  <2>1. Halved(a)[k] = <<a[2 * k - 1], a[2 * k]>> /\ Halved(b)[k] = <<b[2 * k - 1], b[2 * k]>>
    BY HalvedPairs
  <2>2. <<a[2 * k - 1], a[2 * k]>> = <<b[2 * k - 1], b[2 * k]>>
    BY <2>1
  <2> QED
    BY <2>2, PairBinds
<1>2. \A j \in 1..n : \E k \in 1..m : j = 2 * k \/ j = 2 * k - 1
  <2> SUFFICES ASSUME NEW j \in 1..n PROVE \E k \in 1..m : j = 2 * k \/ j = 2 * k - 1
    OBVIOUS
  <2>1. CASE j % 2 = 0
    <3>1. j \div 2 \in 1..m /\ j = 2 * (j \div 2)
      BY <2>1, SMT
    <3> QED
      BY <3>1
  <2>2. CASE j % 2 # 0
    <3>1. (j + 1) \div 2 \in 1..m /\ j = 2 * ((j + 1) \div 2) - 1
      BY <2>2, SMT
    <3> QED
      BY <3>1
  <2> QED
    BY <2>1, <2>2
<1>3. \A j \in 1..n : a[j] = b[j]
  BY <1>1, <1>2
<1>4. [j \in 1..n |-> a[j]] = [j \in 1..n |-> b[j]]
  BY <1>3
<1> QED
  BY <1>4 DEF ListOf

\* Two trees agree from their tops down.
Agree(f, double, d, g, twice, e) ==
    \A n \in 0..d : double[n] = twice[n] /\ f[d - n] = g[e - n]

\* No leaf is a pair of nodes.
NoPairs(leaves, c) == \A k \in 1..c : \A x, y : leaves[k] # <<x, y>>

\* A leaf tells what it holds, and no leaf is a pair.
LEMMA TripleBinds ==
    /\ \A u, v, w, x, y, z : <<u, v, w>> = <<x, y, z>> => u = x /\ v = y /\ w = z
    /\ \A u, v, w, x, y : <<u, v, w>> # <<x, y>>
    /\ \A x, y : <<>> # <<x, y>>
    /\ \A x, y, z : <<>> # <<x, y, z>>
BY SMT

\* The tree of a roster has plain leaves.
LEMMA TreeIsPlain ==
    ASSUME NEW r, NEW c \in Nat
    PROVE  ListOf(TreeOf(r, c), c) /\ NoPairs(TreeOf(r, c), c)
<1>1. ListOf(TreeOf(r, c), c)
  BY DEF ListOf, TreeOf
<1>2. ASSUME NEW k \in 1..c, NEW x, NEW y PROVE TreeOf(r, c)[k] # <<x, y>>
  <2>1. TreeOf(r, c)[k] = IF k - 1 \in DOMAIN r THEN <<k - 1, r[k - 1].member, r[k - 1].joined>>
                          ELSE ZeroLeaf
    BY DEF TreeOf
  <2>2. CASE k - 1 \in DOMAIN r
    <3>1. TreeOf(r, c)[k] = <<k - 1, r[k - 1].member, r[k - 1].joined>>
      BY <2>1, <2>2
    <3>2. \A u, v, w : <<u, v, w>> # <<x, y>>
      BY TripleBinds
    <3> QED
      BY <3>1, <3>2
  <2>3. CASE k - 1 \notin DOMAIN r
    BY <2>1, <2>3, TripleBinds DEF ZeroLeaf
  <2> QED
    BY <2>2, <2>3
<1> QED
  BY <1>1, <1>2 DEF NoPairs

\* The layers exist up to every height.
LEMMA LayersExist ==
    ASSUME Laws, NEW leaves, NEW n \in Nat
    PROVE  \E f : Layers(f, leaves, n)
<1> DEFINE Stuck == {m \in Nat : ~ \E f : Layers(f, leaves, m)}
<1> SUFFICES ASSUME Stuck # {} PROVE FALSE
  OBVIOUS
<1>1. PICK m \in Stuck : \A k \in Stuck : m <= k
  BY LeastNat
<1>2. CASE m = 0
  <2>1. Layers([i \in 0..0 |-> leaves], leaves, 0)
    BY SMT DEF Layers
  <2> QED
    BY <1>1, <1>2, <2>1
<1>3. CASE m # 0
  <2>1. m - 1 \in Nat /\ m - 1 \notin Stuck
    BY <1>1, <1>3, SMT
  <2>2. PICK f : Layers(f, leaves, m - 1)
    BY <2>1
  <2> DEFINE g == [i \in 0..m |-> IF i = m THEN Halved(f[m - 1]) ELSE f[i]]
  <2>3. ASSUME NEW i \in 0..m
        PROVE  g[i] = IF i = 0 THEN leaves ELSE Halved(g[i - 1])
    <3>1. CASE i = m
      BY <1>3, <3>1, SMT
    <3>2. CASE i # m
      <4>1. /\ i \in 0..(m - 1) /\ g[i] = f[i]
            /\ i # 0 => i - 1 \in 0..(m - 1) /\ g[i - 1] = f[i - 1]
        BY <1>1, <1>3, <3>2, SMT
      <4>2. f[i] = IF i = 0 THEN leaves ELSE Halved(f[i - 1])
        BY <2>2, <4>1 DEF Layers
      <4> HIDE DEF g
      <4> QED
        BY <4>1, <4>2
    <3> QED
      BY <3>1, <3>2
  <2>4. Layers(g, leaves, m)
    BY <2>3 DEF Layers
  <2> QED
    BY <1>1, <2>4
<1> QED
  BY <1>2, <1>3

\* Every layer has half the nodes of the one below it.
LEMMA LayerSizes ==
    ASSUME Laws, NEW leaves, NEW c \in Nat \ {0}, NEW d, NEW double, Chain(c, d, double),
           ListOf(leaves, c), NEW f, Layers(f, leaves, c)
    PROVE  \A i \in 0..d : ListOf(f[i], double[d - i])
<1> DEFINE Wrong == {i \in 0..d : ~ListOf(f[i], double[d - i])}
<1> SUFFICES ASSUME Wrong # {} PROVE FALSE
  OBVIOUS
<1>0. d \in Nat /\ d <= c /\ double[d] = c
  BY DEF Chain
<1>1. Wrong \in SUBSET Nat
  BY <1>0, SMT
<1>2. PICK i \in Wrong : \A k \in Wrong : i <= k
  BY <1>1, LeastNat
<1>3. i \in Nat /\ i \in 0..d /\ i \in 0..c /\ ~ListOf(f[i], double[d - i])
  <2>1. i \in 0..d /\ ~ListOf(f[i], double[d - i])
    BY <1>2
  <2> QED
    BY <1>0, <2>1, SMT
<1>4. CASE i = 0
  <2>1. d - i = d
    BY <1>0, <1>4, SMT
  <2>2. f[i] = leaves
    BY <1>3, <1>4 DEF Layers
  <2> QED
    BY <1>0, <1>3, <2>1, <2>2
<1>5. CASE i # 0
  <2>1. /\ i - 1 \in 0..d /\ ~(i <= i - 1) /\ d - i + 1 \in 1..d /\ d - (i - 1) = d - i + 1
        /\ (d - i + 1) - 1 = d - i
    BY <1>0, <1>3, <1>5, SMT
  <2>2. ListOf(f[i - 1], double[d - i + 1])
    <3>1. i - 1 \notin Wrong
      BY <1>2, <2>1
    <3>2. ListOf(f[i - 1], double[d - (i - 1)])
      BY <2>1, <3>1
    <3> QED
      BY <2>1, <3>2
  <2>3. /\ double[d - i + 1] = 2 * double[d - i]
        /\ double[d - i] \in Nat /\ double[d - i + 1] \in Nat
    <3>1. PICK n \in 1..d : n = d - i + 1
      BY <2>1
    <3>2. Grows(double, n, d)
      BY ChainGrows
    <3>4. double[n] = 2 * double[n - 1] /\ double[n] \in Nat /\ double[n - 1] \in Nat
      BY <3>2 DEF Grows
    <3>3. n - 1 = d - i
      BY <2>1, <3>1
    <3> QED
      BY <3>1, <3>3, <3>4
  <2>4. ListOf(Halved(f[i - 1]), double[d - i])
    BY <2>2, <2>3, HalvedPairs
  <2>5. f[i] = Halved(f[i - 1])
    BY <1>3, <1>5 DEF Layers
  <2> QED
    BY <1>3, <2>4, <2>5
<1> QED
  BY <1>4, <1>5

\* The loop ends at the height of the chain.
LEMMA RootIsTop ==
    ASSUME Laws, NEW leaves, NEW c \in Nat \ {0}, NEW d, NEW double, Chain(c, d, double),
           ListOf(leaves, c)
    PROVE  \E f : Layers(f, leaves, c) /\ PositionalRoot(leaves) = f[d][1]
<1> DEFINE f == CHOOSE g : g = [n \in 0..Len(leaves) |-> IF n = 0 THEN leaves ELSE Halved(g[n - 1])]
           top == CHOOSE n \in 0..Len(leaves) :
                    Len(f[n]) <= 1 /\ \A m \in 0..(n - 1) : Len(f[m]) > 1
<1>1. PositionalRoot(leaves) = f[top][1]
  BY DEF PositionalRoot
<1>2. Len(leaves) = c
  BY FnLen, SMT DEF ListOf
<1>3. Layers(f, leaves, c)
  <2>1. \E g : Layers(g, leaves, c)
    BY LayersExist
  <2> QED
    BY <1>2, <2>1 DEF Layers
<1> HIDE DEF f
<1>4. d \in Nat /\ d <= c /\ double[0] = 1
  BY DEF Chain
<1>5. ASSUME NEW i \in 0..d PROVE d - i \in 0..d /\ double[d - i] \in Nat /\ Len(f[i]) = double[d - i]
  <2>1. d - i \in 0..d
    BY <1>4, SMT
  <2>2. double[d - i] \in Nat
    BY <2>1 DEF Chain
  <2>3. ListOf(f[i], double[d - i])
    BY <1>3, LayerSizes
  <2> QED
    BY <2>1, <2>2, <2>3, FnLen DEF ListOf
<1>6. Len(f[d]) = 1
  <2>1. d \in 0..d /\ d - d = 0
    BY <1>4, SMT
  <2> QED
    BY <1>4, <1>5, <2>1
<1>7. ASSUME NEW m \in 0..(d - 1) PROVE Len(f[m]) > 1
  <2>1. m \in 0..d /\ d - m \in 1..d
    BY <1>4, SMT
  <2>2. double[d - m] > 1
    BY <2>1, ChainGrows DEF Grows
  <2> QED
    BY <1>5, <2>1, <2>2
<1>8. top = d
  <2>1. d \in 0..Len(leaves) /\ Len(f[d]) <= 1 /\ \A m \in 0..(d - 1) : Len(f[m]) > 1
    BY <1>2, <1>4, <1>6, <1>7, SMT
  <2>2. top \in 0..Len(leaves) /\ Len(f[top]) <= 1 /\ \A m \in 0..(top - 1) : Len(f[m]) > 1
    BY <2>1
  <2> HIDE DEF top
  <2>3. top \in Nat
    BY <1>2, <2>2, SMT
  <2>4. ~(top < d)
    <3> SUFFICES ASSUME top < d PROVE FALSE
      OBVIOUS
    <3>1. top \in 0..(d - 1)
      BY <1>4, <2>3, SMT
    <3>2. top \in 0..d
      BY <1>4, <2>3, SMT
    <3>3. Len(f[top]) \in Nat
      BY <1>5, <3>2
    <3>4. Len(f[top]) > 1
      BY <1>7, <3>1
    <3> QED
      BY <2>2, <3>3, <3>4, SMT
  <2>5. ~(d < top)
    <3> SUFFICES ASSUME d < top PROVE FALSE
      OBVIOUS
    <3>1. d \in 0..(top - 1)
      BY <1>4, <2>3, SMT
    <3>2. Len(f[d]) > 1
      BY <2>2, <3>1
    <3> QED
      BY <1>6, <3>2, SMT
  <2> QED
    BY <1>4, <2>3, <2>4, <2>5, SMTT(30)
<1> HIDE DEF top
<1>9. PositionalRoot(leaves) = f[d][1]
  BY <1>1, <1>8
<1> QED
  BY <1>3, <1>9

\* Below equal roots the layers of two trees are equal as far down as the lower tree
\* goes.
LEMMA LayersAgree ==
    ASSUME Laws, NEW p, NEW c \in Nat \ {0}, NEW d, NEW double, Chain(c, d, double), ListOf(p, c),
           NEW f, Layers(f, p, c),
           NEW q, NEW b \in Nat \ {0}, NEW e, NEW twice, Chain(b, e, twice), ListOf(q, b),
           NEW g, Layers(g, q, b),
           d <= e, f[d][1] = g[e][1]
    PROVE  Agree(f, double, d, g, twice, e)
<1> DEFINE Wrong == {n \in 0..d : ~(double[n] = twice[n] /\ f[d - n] = g[e - n])}
<1> SUFFICES ASSUME Wrong # {} PROVE FALSE
  BY DEF Agree
<1>0. d \in Nat /\ e \in Nat /\ double[0] = 1 /\ twice[0] = 1 /\ d <= c /\ e <= b
  BY DEF Chain
<1>1. Wrong \in SUBSET Nat
  BY <1>0, SMT
<1>2. PICK n \in Wrong : \A k \in Wrong : n <= k
  BY <1>1, LeastNat
<1>3. n \in 0..d /\ ~(double[n] = twice[n] /\ f[d - n] = g[e - n])
  BY <1>2
<1>4. (\A i \in 0..d : ListOf(f[i], double[d - i])) /\ (\A i \in 0..e : ListOf(g[i], twice[e - i]))
  BY LayerSizes
<1>5. ASSUME NEW i \in 0..d
      PROVE  ListOf(f[d - i], double[i]) /\ ListOf(g[e - i], twice[i])
  <2>1. d - i \in 0..d /\ e - i \in 0..e /\ d - (d - i) = i /\ e - (e - i) = i
    BY <1>0, SMT
  <2> QED
    BY <1>4, <2>1
<1>6. CASE n = 0
  <2>1. d - n = d /\ e - n = e
    BY <1>0, <1>6, SMT
  <2>2. ListOf(f[d], 1) /\ ListOf(g[e], 1)
    BY <1>0, <1>3, <1>5, <1>6, <2>1
  <2>3. [k \in 1..1 |-> f[d][k]] = [k \in 1..1 |-> g[e][k]]
    <3>1. \A k \in 1..1 : k = 1
      BY SMT
    <3> QED
      BY <3>1
  <2>4. f[d] = g[e]
    BY <2>2, <2>3 DEF ListOf
  <2> QED
    BY <1>0, <1>3, <1>6, <2>1, <2>4
<1>7. CASE n # 0
  <2>1. /\ n - 1 \in 0..d /\ ~(n <= n - 1) /\ n \in 1..d /\ n \in 1..e
        /\ d - (n - 1) \in 0..c /\ d - (n - 1) # 0 /\ d - (n - 1) - 1 = d - n
        /\ e - (n - 1) \in 0..b /\ e - (n - 1) # 0 /\ e - (n - 1) - 1 = e - n
    BY <1>0, <1>3, <1>7, SMT
  <2>2. double[n - 1] = twice[n - 1] /\ f[d - (n - 1)] = g[e - (n - 1)]
    <3>1. n - 1 \notin Wrong
      BY <1>2, <2>1
    <3> QED
      BY <2>1, <3>1
  <2>3. /\ double[n] = 2 * double[n - 1] /\ double[n] \in Nat /\ double[n - 1] \in Nat
        /\ twice[n] = 2 * twice[n - 1]
    <3>1. Grows(double, n, d) /\ Grows(twice, n, e)
      BY <2>1, ChainGrows
    <3> QED
      BY <3>1 DEF Grows
  <2>4. double[n] = twice[n]
    BY <2>2, <2>3
  <2>5. f[d - (n - 1)] = Halved(f[d - n]) /\ g[e - (n - 1)] = Halved(g[e - n])
    <3>1. f[d - (n - 1)] = Halved(f[d - (n - 1) - 1])
      BY <2>1 DEF Layers
    <3>2. g[e - (n - 1)] = Halved(g[e - (n - 1) - 1])
      BY <2>1 DEF Layers
    <3> QED
      BY <2>1, <3>1, <3>2
  <2>6. Halved(f[d - n]) = Halved(g[e - n])
    BY <2>2, <2>5
  <2>7. ListOf(f[d - n], double[n]) /\ ListOf(g[e - n], double[n])
    BY <1>3, <1>5, <2>4
  <2>8. f[d - n] = g[e - n]
    BY <2>3, <2>6, <2>7, HalvesBind
  <2> QED
    BY <1>3, <2>4, <2>8
<1> QED
  BY <1>6, <1>7

\* Two trees with one root, the first of them no higher, are the same.
LEMMA LowerTreeBinds ==
    ASSUME Laws, NEW p, NEW c \in Nat \ {0}, NEW d, NEW double, Chain(c, d, double), ListOf(p, c),
           NEW q, NEW b \in Nat \ {0}, NEW e, NEW twice, Chain(b, e, twice), ListOf(q, b),
           NoPairs(p, c), d <= e, PositionalRoot(p) = PositionalRoot(q)
    PROVE  c = b /\ p = q
<1>1. PICK f : Layers(f, p, c) /\ PositionalRoot(p) = f[d][1]
  BY RootIsTop
<1>2. PICK g : Layers(g, q, b) /\ PositionalRoot(q) = g[e][1]
  BY RootIsTop
<1>3. \A n \in 0..d : double[n] = twice[n] /\ f[d - n] = g[e - n]
  <2>1. f[d][1] = g[e][1]
    BY <1>1, <1>2
  <2> QED
    <3>1. Agree(f, double, d, g, twice, e)
      BY <1>1, <1>2, <2>1, LayersAgree
    <3> QED
      BY <3>1 DEF Agree
<1>4. d \in Nat /\ e \in Nat /\ d \in 0..d /\ d - d = 0 /\ e - d \in Nat /\ 0 \in 0..c /\ 0 \in 0..b
  <2>1. d \in Nat /\ e \in Nat
    BY DEF Chain
  <2> QED
    BY <2>1, SMT
<1>5. p = g[e - d] /\ double[d] = c /\ twice[d] = c
  <2>1. f[0] = p
    BY <1>1, <1>4 DEF Layers
  <2>2. double[d] = c
    BY DEF Chain
  <2> QED
    BY <1>3, <1>4, <2>1, <2>2
<1>6. CASE e = d
  <2>1. e - d = 0
    BY <1>4, <1>6, SMT
  <2>2. g[0] = q /\ twice[e] = b
    BY <1>2, <1>4 DEF Layers, Chain
  <2> QED
    BY <1>5, <1>6, <2>1, <2>2
<1>7. CASE e # d
  <2>1. /\ e - d \in 0..b /\ e - d # 0 /\ e - d - 1 \in 0..e /\ d + 1 \in 1..e
        /\ e - (e - d - 1) = d + 1 /\ (d + 1) - 1 = d
    <3>1. e <= b
      BY DEF Chain
    <3> QED
      BY <1>4, <1>7, <3>1, SMT
  <2>2. g[e - d] = Halved(g[e - d - 1])
    BY <1>2, <2>1 DEF Layers
  <2>3. ListOf(g[e - d - 1], twice[d + 1])
    <3>1. ListOf(g[e - d - 1], twice[e - (e - d - 1)])
      BY <1>2, <2>1, LayerSizes
    <3> QED
      BY <2>1, <3>1
  <2>4. twice[d + 1] = 2 * c /\ twice[d + 1] \in Nat
    <3>1. PICK n \in 1..e : n = d + 1
      BY <2>1
    <3>4. Grows(twice, n, e)
      BY ChainGrows
    <3>2. twice[n] = 2 * twice[n - 1] /\ twice[n] \in Nat
      BY <3>4 DEF Grows
    <3>3. n - 1 = d
      BY <2>1, <3>1
    <3> QED
      BY <1>5, <3>1, <3>2, <3>3
  <2>5. 1 \in 1..c
    BY SMT
  <2>6. \E x, y : p[1] = <<x, y>>
    <3>1. c \in Nat
      OBVIOUS
    <3> DEFINE h == g[e - d - 1]
               n == twice[d + 1]
    <3> HIDE DEF h, n
    <3>3. n \in Nat /\ n = 2 * c /\ ListOf(h, n)
      BY <2>3, <2>4 DEF h, n
    <3>4. Halved(h)[1] = <<h[2 * 1 - 1], h[2 * 1]>>
      BY <2>5, <3>1, <3>3, HalvedPairs
    <3>5. p = Halved(h)
      BY <1>5, <2>2 DEF h
    <3> QED
      BY <3>4, <3>5
  <2> QED
    BY <2>5, <2>6 DEF NoPairs
<1> QED
  BY <1>6, <1>7

\* A root opens to one list of leaves, whatever capacity is claimed for it.
LEMMA RootsBind ==
    ASSUME Laws, NEW p, NEW c \in Nat \ {0}, PowerOfTwo(c), ListOf(p, c), NoPairs(p, c),
           NEW q, NEW b \in Nat \ {0}, PowerOfTwo(b), ListOf(q, b), NoPairs(q, b),
           PositionalRoot(p) = PositionalRoot(q)
    PROVE  c = b /\ p = q
<1>1. \E d, double : Chain(c, d, double)
  BY Chained
<1>2. \E e, twice : Chain(b, e, twice)
  BY Chained
<1> SUFFICES ASSUME NEW d, NEW double, Chain(c, d, double), NEW e, NEW twice, Chain(b, e, twice)
             PROVE  c = b /\ p = q
  BY <1>1, <1>2
<1>3. d <= e \/ e <= d
  <2>1. d \in Nat /\ e \in Nat
    BY DEF Chain
  <2> QED
    BY <2>1, SMT
<1>4. CASE d <= e
  BY <1>4, LowerTreeBinds
<1>5. CASE e <= d
  <2>1. b = c /\ q = p
    BY <1>5, LowerTreeBinds
  <2> QED
    BY <2>1
<1> QED
  BY <1>3, <1>4, <1>5

\* One root, one roster: roster_root_v5 binds.
LEMMA RosterBinds ==
    ASSUME Laws, NEW r, NEW s, IsRoster(r), IsRoster(s),
           NEW c \in Capacities, NEW b \in Capacities,
           Placed(r, c), Placed(s, b),
           PositionalRoot(TreeOf(r, c)) = PositionalRoot(TreeOf(s, b))
    PROVE  r = s
<1>1. c \in Nat \ {0} /\ b \in Nat \ {0} /\ PowerOfTwo(c) /\ PowerOfTwo(b)
  BY CapacityAssumption
<1>2. /\ ListOf(TreeOf(r, c), c) /\ NoPairs(TreeOf(r, c), c)
      /\ ListOf(TreeOf(s, b), b) /\ NoPairs(TreeOf(s, b), b)
  BY <1>1, TreeIsPlain
<1>3. c = b /\ TreeOf(r, c) = TreeOf(s, b)
  BY <1>1, <1>2, RootsBind
<1>4. ASSUME NEW i \in Nat, i < c
      PROVE  /\ i \in DOMAIN r <=> i \in DOMAIN s
             /\ i \in DOMAIN r => r[i].member = s[i].member /\ r[i].joined = s[i].joined
  <2>1. i + 1 \in 1..c /\ (i + 1) - 1 = i
    BY <1>1, <1>4, SMT
  <2>2. TreeOf(r, c)[i + 1] = IF i \in DOMAIN r THEN <<i, r[i].member, r[i].joined>> ELSE ZeroLeaf
    BY <2>1 DEF TreeOf
  <2>3. TreeOf(s, c)[i + 1] = IF i \in DOMAIN s THEN <<i, s[i].member, s[i].joined>> ELSE ZeroLeaf
    BY <2>1 DEF TreeOf
  <2>4. (IF i \in DOMAIN r THEN <<i, r[i].member, r[i].joined>> ELSE ZeroLeaf)
          = (IF i \in DOMAIN s THEN <<i, s[i].member, s[i].joined>> ELSE ZeroLeaf)
    BY <1>3, <2>2, <2>3
  <2>5. CASE i \in DOMAIN r /\ i \in DOMAIN s
    <3>1. <<i, r[i].member, r[i].joined>> = <<i, s[i].member, s[i].joined>>
      BY <2>4, <2>5
    <3> QED
      BY <2>5, <3>1, TripleBinds
  <2>6. CASE i \in DOMAIN r /\ i \notin DOMAIN s
    BY <2>4, <2>6, TripleBinds DEF ZeroLeaf
  <2>7. CASE i \notin DOMAIN r /\ i \in DOMAIN s
    BY <2>4, <2>7, TripleBinds DEF ZeroLeaf
  <2> QED
    BY <2>5, <2>6, <2>7
<1>5. DOMAIN r = DOMAIN s
  BY <1>3, <1>4 DEF IsRoster, Placed
<1>6. \A i \in DOMAIN r : r[i].member = s[i].member /\ r[i].joined = s[i].joined
  BY <1>4 DEF IsRoster, Placed
<1>7. [i \in DOMAIN r |-> [member |-> r[i].member, joined |-> r[i].joined]]
        = [i \in DOMAIN s |-> [member |-> s[i].member, joined |-> s[i].joined]]
  BY <1>5, <1>6
<1> QED
  BY <1>7 DEF IsRoster

(***************************************************************************)
(* Rosters and their lists.                                                *)
(***************************************************************************)

\* The fields of a roster's entry.
LEMMA PlaceFields ==
    \A x, m, j : x = [member |-> m, joined |-> j] => x.member = m /\ x.joined = j
BY SMT

\* A list of positions with distinct indices, one entry for each.
Distinct(list) ==
    /\ IsFiniteSet(DOMAIN list)
    /\ \A k \in DOMAIN list : list[k].index \in Nat /\ list[k].joined \in Nat
    /\ \A j, k \in DOMAIN list : list[j].index = list[k].index => j = k

\* The map has one entry for each entry of the list.
LEMMA MapFields ==
    ASSUME NEW list, Distinct(list)
    PROVE  /\ DOMAIN RosterMap(list) = {list[k].index : k \in DOMAIN list}
           /\ \A k \in DOMAIN list : RosterMap(list)[list[k].index] =
                [member |-> list[k].member, joined |-> list[k].joined]
<1>1. DOMAIN RosterMap(list) = {list[k].index : k \in DOMAIN list}
  BY DEF RosterMap
<1>2. ASSUME NEW k \in DOMAIN list
      PROVE  RosterMap(list)[list[k].index] = [member |-> list[k].member, joined |-> list[k].joined]
  <2> DEFINE i == list[k].index
             at == CHOOSE j \in DOMAIN list : list[j].index = i
  <2>1. i \in {list[j].index : j \in DOMAIN list}
    OBVIOUS
  <2>2. RosterMap(list)[i] = [member |-> list[at].member, joined |-> list[at].joined]
    BY <2>1 DEF RosterMap
  <2>3. at \in DOMAIN list /\ list[at].index = i
    OBVIOUS
  <2>4. at = k
    BY <2>3 DEF Distinct
  <2> QED
    BY <2>2, <2>4
<1> QED
  BY <1>1, <1>2

\* It is a roster, of the members on the list.
LEMMA MapIsRoster ==
    ASSUME Laws, NEW list, Distinct(list)
    PROVE  IsRoster(RosterMap(list)) /\ MembersOf(RosterMap(list)) = {list[k].member : k \in DOMAIN list}
<1> DEFINE r == RosterMap(list)
<1>1. DOMAIN r = {list[k].index : k \in DOMAIN list}
  BY MapFields
<1>2. \A k \in DOMAIN list : r[list[k].index] = [member |-> list[k].member, joined |-> list[k].joined]
  BY MapFields
<1>3. r = [i \in DOMAIN r |-> r[i]]
  BY DEF RosterMap
<1> HIDE DEF r
<1>4. IsFiniteSet(DOMAIN r)
  <2>1. IsFiniteSet({list[k].index : k \in DOMAIN list})
    <3>1. IsFiniteSet(DOMAIN list)
      BY DEF Distinct
    <3> DEFINE f == [k \in DOMAIN list |-> list[k].index]
    <3>2. f \in Surjection(DOMAIN list, {list[k].index : k \in DOMAIN list})
      BY DEF Surjection
    <3> QED
      BY <3>1, <3>2, FiniteImage
  <2> QED
    BY <1>1, <2>1
<1>5. \A i \in DOMAIN r : i \in Nat /\ \E k \in DOMAIN list : i = list[k].index
  BY <1>1 DEF Distinct
<1>6. ASSUME NEW i \in DOMAIN r
      PROVE  r[i] = [member |-> r[i].member, joined |-> r[i].joined] /\ r[i].joined \in Nat
  <2>1. PICK k \in DOMAIN list : i = list[k].index
    BY <1>5
  <2>2. r[i] = [member |-> list[k].member, joined |-> list[k].joined]
    BY <1>2, <2>1
  <2>3. list[k].joined \in Nat
    BY DEF Distinct
  <2>4. r[i].member = list[k].member /\ r[i].joined = list[k].joined
    BY <2>2, PlaceFields
  <2> QED
    BY <2>2, <2>3, <2>4
<1>7. r = [i \in DOMAIN r |-> [member |-> r[i].member, joined |-> r[i].joined]]
  <2>1. [i \in DOMAIN r |-> r[i]] = [i \in DOMAIN r |-> [member |-> r[i].member, joined |-> r[i].joined]]
    BY <1>6
  <2> QED
    BY <1>3, <2>1
<1>8. IsRoster(r)
  BY <1>4, <1>5, <1>6, <1>7 DEF IsRoster
<1>9. \A m : m \in MembersOf(r) <=> m \in {list[k].member : k \in DOMAIN list}
  <2>1. ASSUME NEW k \in DOMAIN list
        PROVE  list[k].index \in DOMAIN r /\ r[list[k].index].member = list[k].member
    <3>1. list[k].index \in DOMAIN r
      BY <1>1
    <3>2. r[list[k].index] = [member |-> list[k].member, joined |-> list[k].joined]
      BY <1>2
    <3> QED
      BY <3>1, <3>2, PlaceFields
  <2>2. ASSUME NEW i \in DOMAIN r PROVE r[i].member \in {list[k].member : k \in DOMAIN list}
    <3>1. PICK k \in DOMAIN list : i = list[k].index
      BY <1>5
    <3> QED
      BY <2>1, <3>1
  <2>3. ASSUME NEW k \in DOMAIN list PROVE list[k].member \in MembersOf(r)
    BY <2>1 DEF MembersOf
  <2> QED
    BY <2>2, <2>3 DEF MembersOf
<1> QED
  BY <1>8, <1>9 DEF r

\* A roster's root is the root of its tree.
LEMMA RootOfMap ==
    ASSUME NEW list, Distinct(list), NEW c \in Nat
    PROVE  RosterRoot(list, c) = PositionalRoot(TreeOf(RosterMap(list), c))
<1> DEFINE r == RosterMap(list)
           leaves == [k \in DOMAIN list |-> RosterLeaf(list[k])]
           At(p) == {k \in DOMAIN list : list[k].index = p - 1}
<1>1. DOMAIN r = {list[k].index : k \in DOMAIN list}
  BY MapFields
<1>2. \A k \in DOMAIN list : r[list[k].index] = [member |-> list[k].member, joined |-> list[k].joined]
  BY MapFields
<1> HIDE DEF r
<1>3. ASSUME NEW p \in 1..c
      PROVE  (IF At(p) = {} THEN ZeroLeaf ELSE leaves[CHOOSE k \in At(p) : TRUE])
               = (IF p - 1 \in DOMAIN r THEN <<p - 1, r[p - 1].member, r[p - 1].joined>> ELSE ZeroLeaf)
  <2>1. CASE At(p) = {}
    <3>1. p - 1 \notin DOMAIN r
      BY <1>1, <2>1
    <3> QED
      BY <2>1, <3>1
  <2>2. CASE At(p) # {}
    <3> DEFINE k == CHOOSE j \in At(p) : TRUE
    <3>1. k \in DOMAIN list /\ list[k].index = p - 1
      BY <2>2
    <3> HIDE DEF k
    <3>2. p - 1 \in DOMAIN r
      BY <1>1, <3>1
    <3>3. r[p - 1] = [member |-> list[k].member, joined |-> list[k].joined]
      BY <1>2, <3>1
    <3>4. r[p - 1].member = list[k].member /\ r[p - 1].joined = list[k].joined
      BY <3>3, PlaceFields
    <3>5. leaves[k] = <<list[k].index, list[k].member, list[k].joined>>
      BY <3>1 DEF RosterLeaf
    <3> QED
      BY <2>2, <3>1, <3>2, <3>4, <3>5 DEF k
  <2> QED
    BY <2>1, <2>2
<1>4. Positions(list, c, leaves) = TreeOf(r, c)
  BY <1>3 DEF Positions, TreeOf
<1> QED
  BY <1>4 DEF RosterRoot, r

\* How many positions of a roster are below this one.
Rank(r, i) == Cardinality({j \in DOMAIN r : j < i})

\* Ranks are below the number of positions, and grow with the positions.
LEMMA RankGrows ==
    ASSUME Laws, NEW r, IsRoster(r)
    PROVE  /\ Cardinality(DOMAIN r) \in Nat
           /\ \A i \in DOMAIN r : Rank(r, i) \in 0..(Cardinality(DOMAIN r) - 1)
           /\ \A i, j \in DOMAIN r : i < j => Rank(r, i) < Rank(r, j)
<1> DEFINE D == DOMAIN r
           Below(i) == {j \in D : j < i}
<1>0. IsFiniteSet(D) /\ D \subseteq Nat
  BY DEF IsRoster
<1> HIDE DEF D
<1>1. ASSUME NEW i \in D
      PROVE  IsFiniteSet(Below(i)) /\ Cardinality(Below(i)) \in Nat /\ i \notin Below(i)
  <2>1. Below(i) \in SUBSET D
    OBVIOUS
  <2>2. IsFiniteSet(Below(i))
    BY <1>0, <2>1, FiniteSubset
  <2>3. ~(i < i)
    BY <1>0, SMT
  <2> QED
    BY <2>2, <2>3, FiniteSize
<1>2. Cardinality(D) \in Nat
  BY <1>0, FiniteSize
<1>3. ASSUME NEW i \in D PROVE Cardinality(Below(i)) \in 0..(Cardinality(D) - 1)
  <2>1. Below(i) \in SUBSET D /\ Below(i) # D
    BY <1>1
  <2>2. Cardinality(Below(i)) <= Cardinality(D) /\ Cardinality(D) # Cardinality(Below(i))
    BY <1>0, <2>1, FiniteSubset
  <2>3. Cardinality(Below(i)) \in Nat
    BY <1>1
  <2> HIDE DEF Below, D
  <2> QED
    BY <1>2, <2>2, <2>3, SMT
<1>4. ASSUME NEW i \in D, NEW j \in D, i < j PROVE Cardinality(Below(i)) < Cardinality(Below(j))
  <2>1. \A k \in D : k < i => k < j
    BY <1>0, <1>4, SMT
  <2>2. Below(i) \in SUBSET Below(j) /\ i \in Below(j)
    BY <1>4, <2>1
  <2>3. Below(j) # Below(i)
    BY <1>1, <2>2
  <2>4. Cardinality(Below(i)) <= Cardinality(Below(j)) /\ Cardinality(Below(j)) # Cardinality(Below(i))
    BY <1>1, <2>2, <2>3, FiniteSubset
  <2>5. Cardinality(Below(i)) \in Nat /\ Cardinality(Below(j)) \in Nat
    BY <1>1
  <2> HIDE DEF Below
  <2> QED
    BY <2>4, <2>5, SMT
<1> QED
  BY <1>2, <1>3, <1>4 DEF Rank, D

\* There are n numbers below n.
LEMMA Counting ==
    ASSUME Laws, NEW n \in Nat
    PROVE  IsFiniteSet(0..(n - 1)) /\ Cardinality(0..(n - 1)) = n
<1>1. n - 1 \in Int /\ 0 \in Int
  BY SMT
<1>2. IsFiniteSet(0..(n - 1))
  BY <1>1, FiniteRange
<1>3. Cardinality(0..(n - 1)) = IF 0 > n - 1 THEN 0 ELSE (n - 1) - 0 + 1
  BY <1>1, FiniteRange
<1>4. Cardinality(0..(n - 1)) = n
  BY <1>3, SMT
<1> QED
  BY <1>2, <1>4

\* Every number below their number is the rank of one position.
LEMMA RanksFill ==
    ASSUME Laws, NEW r, IsRoster(r)
    PROVE  /\ \A i, j \in DOMAIN r : Rank(r, i) = Rank(r, j) => i = j
           /\ \A n \in 0..(Cardinality(DOMAIN r) - 1) : \E i \in DOMAIN r : Rank(r, i) = n
<1> DEFINE D == DOMAIN r
           n == Cardinality(D)
           f == [i \in D |-> Rank(r, i)]
<1>0. IsFiniteSet(D) /\ D \subseteq Nat
  BY DEF IsRoster
<1>1. n \in Nat
  BY RankGrows
<1>2. \A i \in D : Rank(r, i) \in 0..(n - 1)
  BY RankGrows
<1>3. \A i, j \in D : i < j => Rank(r, i) < Rank(r, j)
  BY RankGrows
<1>9. IsFiniteSet(0..(n - 1)) /\ Cardinality(0..(n - 1)) = n
  BY <1>1, Counting
<1> HIDE DEF D
<1>4. ASSUME NEW i \in D, NEW j \in D, Rank(r, i) = Rank(r, j) PROVE i = j
  <2>1. i \in Nat /\ j \in Nat
    BY <1>0
  <2>2. i < j \/ j < i \/ i = j
    BY <2>1, SMT
  <2>3. Rank(r, i) \in Nat
    <3> HIDE DEF n
    <3> QED
      BY <1>1, <1>2, SMT
  <2>4. ~(Rank(r, i) < Rank(r, i))
    BY <2>3, SMT
  <2> QED
    BY <1>3, <1>4, <2>2, <2>4
<1>5. f \in Injection(D, 0..(n - 1))
  <2>1. f \in [D -> 0..(n - 1)]
    BY <1>2
  <2>2. \A i, j \in D : f[i] = f[j] => i = j
    BY <1>4
  <2> QED
    <3> HIDE DEF f, n
    <3> QED
      BY <2>1, <2>2 DEF Injection, IsInjective
<1>6. f \in Surjection(D, 0..(n - 1))
  <2> HIDE DEF f
  <2>1. Cardinality(D) = Cardinality(0..(n - 1)) <=> f \in Surjection(D, 0..(n - 1))
    BY <1>5, <1>9, FiniteInjection
  <2> QED
    BY <1>9, <2>1
<1>7. \A m \in 0..(n - 1) : \E i \in D : f[i] = m
  BY <1>6 DEF Surjection
<1>8. \A m \in 0..(n - 1) : \E i \in D : Rank(r, i) = m
  BY <1>7
<1> QED
  BY <1>4, <1>8 DEF D

\* The list of a roster: increasing positions, an entry for each position.
Lists(list, r) ==
    /\ IsFiniteSet(DOMAIN list) /\ DOMAIN list \subseteq Nat
    /\ \A k \in DOMAIN list :
         /\ list[k] = [index |-> list[k].index, member |-> list[k].member, joined |-> list[k].joined]
         /\ list[k].index \in DOMAIN r /\ list[k].member = r[list[k].index].member
         /\ list[k].joined = r[list[k].index].joined
    /\ \A j, k \in DOMAIN list : j < k => list[j].index < list[k].index
    /\ \A i \in DOMAIN r : \E k \in DOMAIN list : list[k].index = i

\* The entries of a list.
LEMMA ListedFields ==
    \A x, i, m, j : x = [index |-> i, member |-> m, joined |-> j] =>
       x.index = i /\ x.member = m /\ x.joined = j
BY SMT

\* RosterList lists the roster.
LEMMA ListsRoster ==
    ASSUME Laws, NEW r, IsRoster(r)
    PROVE  Lists(RosterList(r), r)
<1> DEFINE D == DOMAIN r
           n == Cardinality(D)
           at(k) == CHOOSE i \in D : Rank(r, i) = k - 1
           list == RosterList(r)
<1>1. list = [k \in 1..n |-> [index |-> at(k), member |-> r[at(k)].member, joined |-> r[at(k)].joined]]
  BY DEF RosterList, Rank
<1>2. n \in Nat /\ D \subseteq Nat
  BY RankGrows DEF IsRoster
<1>3. \A i \in D : Rank(r, i) \in 0..(n - 1)
  BY RankGrows
<1>4. \A i, j \in D : i < j => Rank(r, i) < Rank(r, j)
  BY RankGrows
<1>5. \A i, j \in D : Rank(r, i) = Rank(r, j) => i = j
  BY RanksFill
<1>6. \A m \in 0..(n - 1) : \E i \in D : Rank(r, i) = m
  BY RanksFill
<1>7. IsFiniteSet(1..n) /\ 1..n \subseteq Nat
  <2>1. 1 \in Int /\ n \in Int
    BY <1>2, SMT
  <2>2. 1..n \subseteq Nat
    BY SMT
  <2> QED
    BY <2>1, <2>2, FiniteRange
<1> HIDE DEF D, n, list
<1>8. ASSUME NEW k \in 1..n PROVE at(k) \in D /\ Rank(r, at(k)) = k - 1
  <2>1. k - 1 \in 0..(n - 1)
    BY <1>2, SMT
  <2> QED
    BY <1>6, <2>1
<1>9. ASSUME NEW i \in D PROVE \E k \in 1..n : at(k) = i
  <2>1. Rank(r, i) + 1 \in 1..n /\ (Rank(r, i) + 1) - 1 = Rank(r, i)
    <3>1. Rank(r, i) \in 0..(n - 1)
      BY <1>3
    <3> QED
      BY <1>2, <3>1, SMT
  <2>2. at(Rank(r, i) + 1) \in D /\ Rank(r, at(Rank(r, i) + 1)) = Rank(r, i)
    BY <1>8, <2>1
  <2> QED
    BY <1>5, <2>1, <2>2
<1>10. ASSUME NEW j \in 1..n, NEW k \in 1..n, j < k PROVE at(j) < at(k)
  <2>1. /\ at(j) \in D /\ Rank(r, at(j)) = j - 1
        /\ at(k) \in D /\ Rank(r, at(k)) = k - 1
    BY <1>8
  <2>2. \A x, y \in D : x < y \/ x = y \/ y < x
    BY <1>2, SMT
  <2>3. j - 1 # k - 1 /\ ~(k - 1 < j - 1)
    BY <1>2, <1>10, SMT
  <2>4. at(j) < at(k) \/ at(j) = at(k) \/ at(k) < at(j)
    BY <2>1, <2>2
  <2>5. at(j) # at(k)
    BY <2>1, <2>3
  <2>6. ~(at(k) < at(j))
    BY <1>4, <2>1, <2>3
  <2> QED
    BY <2>4, <2>5, <2>6
<1>11. DOMAIN list = 1..n
  BY <1>1
<1>12. ASSUME NEW k \in 1..n
       PROVE  /\ list[k].index = at(k) /\ list[k].member = r[at(k)].member
              /\ list[k].joined = r[at(k)].joined
              /\ list[k] = [index |-> list[k].index, member |-> list[k].member, joined |-> list[k].joined]
  <2>1. list[k] = [index |-> at(k), member |-> r[at(k)].member, joined |-> r[at(k)].joined]
    BY <1>1
  <2> DEFINE x == list[k]
             i == at(k)
             m == r[i].member
             j == r[i].joined
  <2> HIDE DEF x, i, m, j
  <2>2. x = [index |-> i, member |-> m, joined |-> j]
    BY <2>1 DEF x, i, m, j
  <2>3. x.index = i /\ x.member = m /\ x.joined = j
    BY <2>2, ListedFields
  <2> QED
    BY <2>2, <2>3 DEF x, i, m, j
<1> HIDE DEF at
<1>13. ASSUME NEW k \in DOMAIN list
       PROVE  /\ list[k] = [index |-> list[k].index, member |-> list[k].member, joined |-> list[k].joined]
              /\ list[k].index \in DOMAIN r /\ list[k].member = r[list[k].index].member
              /\ list[k].joined = r[list[k].index].joined
  <2>1. k \in 1..n
    BY <1>11
  <2>2. at(k) \in DOMAIN r
    BY <1>8, <2>1 DEF D
  <2>3. list[k].index = at(k)
    BY <1>12, <2>1
  <2> QED
    BY <1>12, <2>1, <2>2, <2>3
<1>14. \A j, k \in DOMAIN list : j < k => list[j].index < list[k].index
  <2>1. \A k \in 1..n : list[k].index = at(k)
    BY <1>12
  <2> QED
    BY <1>10, <1>11, <2>1
<1>15. \A i \in DOMAIN r : \E k \in DOMAIN list : list[k].index = i
  <2>1. \A k \in 1..n : list[k].index = at(k)
    BY <1>12
  <2> QED
    BY <1>9, <1>11, <2>1 DEF D
<1>16. IsFiniteSet(DOMAIN list) /\ DOMAIN list \subseteq Nat
  BY <1>7, <1>11
<1> QED
  BY <1>13, <1>14, <1>15, <1>16 DEF Lists, list

\* Increasing positions are distinct.
LEMMA SortedDistinct ==
    ASSUME NEW list, IsFiniteSet(DOMAIN list), DOMAIN list \subseteq Nat,
           \A k \in DOMAIN list : list[k].index \in Nat /\ list[k].joined \in Nat,
           \A j, k \in DOMAIN list : j < k => list[j].index < list[k].index
    PROVE  Distinct(list)
<1>1. ASSUME NEW j \in DOMAIN list, NEW k \in DOMAIN list, list[j].index = list[k].index PROVE j = k
  <2>1. j < k \/ k < j \/ j = k
    BY SMT
  <2>2. ~(list[k].index < list[k].index)
    <3>1. list[k].index \in Nat
      OBVIOUS
    <3> QED
      BY <3>1, SMT
  <2> QED
    BY <1>1, <2>1, <2>2
<1> QED
  BY <1>1 DEF Distinct

\* A list of a roster leads back to it.
LEMMA ListedMap ==
    ASSUME NEW r, IsRoster(r), NEW list, Lists(list, r)
    PROVE  Distinct(list) /\ RosterMap(list) = r
<1>1. \A k \in DOMAIN list : list[k].index \in Nat /\ list[k].joined \in Nat
  BY DEF Lists, IsRoster
<1>2. Distinct(list)
  BY <1>1, SortedDistinct DEF Lists
<1>3. DOMAIN RosterMap(list) = {list[k].index : k \in DOMAIN list}
  BY <1>2, MapFields
<1>4. \A k \in DOMAIN list : RosterMap(list)[list[k].index] =
          [member |-> list[k].member, joined |-> list[k].joined]
  BY <1>2, MapFields
<1>5. DOMAIN RosterMap(list) = DOMAIN r
  <2>1. \A i : i \in {list[k].index : k \in DOMAIN list} <=> i \in DOMAIN r
    BY DEF Lists
  <2> QED
    BY <1>3, <2>1
<1>6. ASSUME NEW i \in DOMAIN r
      PROVE  RosterMap(list)[i] = [member |-> r[i].member, joined |-> r[i].joined]
  <2>1. PICK k \in DOMAIN list : list[k].index = i
    BY DEF Lists
  <2>2. list[k].member = r[i].member /\ list[k].joined = r[i].joined
    BY <2>1 DEF Lists
  <2> QED
    BY <1>4, <2>1, <2>2
<1>7. RosterMap(list) = [i \in DOMAIN RosterMap(list) |-> RosterMap(list)[i]]
  BY DEF RosterMap
<1>8. RosterMap(list) = [i \in DOMAIN r |-> [member |-> r[i].member, joined |-> r[i].joined]]
  <2> DEFINE m == RosterMap(list)
  <2> HIDE DEF m
  <2>1. m = [i \in DOMAIN r |-> m[i]]
    BY <1>5, <1>7 DEF m
  <2>2. \A i \in DOMAIN r : m[i] = [member |-> r[i].member, joined |-> r[i].joined]
    BY <1>6 DEF m
  <2>3. [i \in DOMAIN r |-> m[i]] = [i \in DOMAIN r |-> [member |-> r[i].member, joined |-> r[i].joined]]
    BY <2>2
  <2> QED
    BY <2>1, <2>3 DEF m
<1> QED
  BY <1>2, <1>8 DEF IsRoster

\* The capacity that suits the roster suits its list, and the other way round.
LEMMA PreimagePlaced ==
    ASSUME Laws, NEW r, IsRoster(r), NEW c \in Capacities
    PROVE  /\ RosterPreimage(RosterList(r), c) <=> Placed(r, c)
           /\ RosterRoot(RosterList(r), c) = PositionalRoot(TreeOf(r, c))
<1> DEFINE list == RosterList(r)
<1>1. Lists(list, r)
  BY ListsRoster
<1> HIDE DEF list
<1>2. RosterPreimage(list, c) <=> Placed(r, c)
  <2>1. /\ \A k \in DOMAIN list : list[k].index \in DOMAIN r /\ list[k].joined = r[list[k].index].joined
        /\ \A i \in DOMAIN r : \E k \in DOMAIN list : list[k].index = i
        /\ \A j, k \in DOMAIN list : j < k => list[j].index < list[k].index
    BY <1>1 DEF Lists
  <2>2. ASSUME Placed(r, c) PROVE RosterPreimage(list, c)
    BY <2>1, <2>2 DEF RosterPreimage, PositionsOk, Placed
  <2>3. ASSUME RosterPreimage(list, c), NEW i \in DOMAIN r PROVE i < c /\ r[i].joined # 0
    <3>1. PICK k \in DOMAIN list : list[k].index = i
      BY <2>1
    <3>2. list[k].index < c /\ list[k].joined # 0 /\ list[k].joined = r[list[k].index].joined
      BY <2>1, <2>3 DEF RosterPreimage, PositionsOk
    <3> QED
      BY <3>1, <3>2
  <2> QED
    BY <2>2, <2>3 DEF Placed
<1>3. Distinct(list) /\ RosterMap(list) = r
  BY <1>1, ListedMap
<1>4. c \in Nat
  BY CapacityAssumption
<1>5. RosterRoot(list, c) = PositionalRoot(TreeOf(RosterMap(list), c))
  BY <1>3, <1>4, RootOfMap
<1> QED
  BY <1>2, <1>3, <1>5 DEF list

\* A list with the positions and epochs of numbers.
Numbered(list) ==
    /\ IsFiniteSet(DOMAIN list) /\ DOMAIN list \subseteq Nat
    /\ \A k \in DOMAIN list : list[k].index \in Nat /\ list[k].joined \in Nat

\* The altered entries of a list.
LEMMA AlteredFields ==
    \A x, i, m, j, v : x = [index |-> i, member |-> m, joined |-> j] =>
       /\ [x EXCEPT !.joined = v].index = i /\ [x EXCEPT !.joined = v].joined = v
       /\ [x EXCEPT !.member = v].index = i /\ [x EXCEPT !.member = v].joined = j
BY SMT

\* The lists a prover presents are numbered.
LEMMA PresentedNumbered ==
    ASSUME Laws, IsRoster(roster), NEW list \in RosterLists
    PROVE  Numbered(list)
<1> DEFINE honest == RosterList(roster)
<1>1. Lists(honest, roster)
  BY ListsRoster
<1>2. \/ list = honest
      \/ \E k \in DOMAIN honest : list = [honest EXCEPT ![k].joined = @ + 1]
      \/ \E k \in DOMAIN honest : \E m \in Accounts : list = [honest EXCEPT ![k].member = m]
  BY SMT DEF RosterLists
<1> HIDE DEF honest
<1>3. IsFiniteSet(DOMAIN honest) /\ DOMAIN honest \subseteq Nat
  BY <1>1 DEF Lists
<1>4. ASSUME NEW k \in DOMAIN honest
      PROVE  /\ honest[k].index \in Nat /\ honest[k].joined \in Nat /\ honest[k].joined + 1 \in Nat
             /\ honest[k] = [index |-> honest[k].index, member |-> honest[k].member,
                             joined |-> honest[k].joined]
  <2>1. honest[k].index \in Nat /\ honest[k].joined \in Nat
    BY <1>1 DEF Lists, IsRoster
  <2>2. honest[k].joined + 1 \in Nat
    BY <2>1, SMT
  <2> QED
    BY <1>1, <2>1, <2>2 DEF Lists
<1>5. CASE list = honest
  BY <1>3, <1>4, <1>5 DEF Numbered
<1>6. ASSUME NEW k \in DOMAIN honest, list = [honest EXCEPT ![k].joined = @ + 1]
      PROVE  Numbered(list)
  <2>1. DOMAIN list = DOMAIN honest
    BY <1>6
  <2>2. ASSUME NEW j \in DOMAIN list PROVE list[j].index \in Nat /\ list[j].joined \in Nat
    <3>1. CASE j = k
      <4>1. list[j] = [honest[k] EXCEPT !.joined = honest[k].joined + 1]
        BY <1>6, <3>1
      <4>2. list[j].index = honest[k].index /\ list[j].joined = honest[k].joined + 1
        BY <1>4, <4>1, AlteredFields, ZenonT(30)
      <4> QED
        BY <1>4, <4>2
    <3>2. CASE j # k
      <4>1. list[j] = honest[j]
        BY <1>6, <2>1, <3>2
      <4> QED
        BY <1>4, <2>1, <4>1
    <3> QED
      BY <3>1, <3>2
  <2> QED
    BY <1>3, <2>1, <2>2 DEF Numbered
<1>7. ASSUME NEW k \in DOMAIN honest, NEW m \in Accounts, list = [honest EXCEPT ![k].member = m]
      PROVE  Numbered(list)
  <2>1. DOMAIN list = DOMAIN honest
    BY <1>7
  <2>2. ASSUME NEW j \in DOMAIN list PROVE list[j].index \in Nat /\ list[j].joined \in Nat
    <3>1. CASE j = k
      <4>1. list[j] = [honest[k] EXCEPT !.member = m]
        BY <1>7, <3>1
      <4>2. list[j].index = honest[k].index /\ list[j].joined = honest[k].joined
        BY <1>4, <4>1, AlteredFields
      <4> QED
        BY <1>4, <4>2
    <3>2. CASE j # k
      <4>1. list[j] = honest[j]
        BY <1>7, <2>1, <3>2
      <4> QED
        BY <1>4, <2>1, <4>1
    <3> QED
      BY <3>1, <3>2
  <2> QED
    BY <1>3, <2>1, <2>2 DEF Numbered
<1> QED
  BY <1>2, <1>5, <1>6, <1>7

\* A list that opens the root of the roster is the roster's.
LEMMA OpensRoster ==
    ASSUME Laws, NEW r, IsRoster(r), NEW c \in Capacities, Placed(r, c),
           NEW list, Numbered(list), NEW cap \in Capacities,
           ActiveRosterOk(list, cap, PositionalRoot(TreeOf(r, c)))
    PROVE  RosterMap(list) = r /\ {list[k].member : k \in DOMAIN list} = MembersOf(r)
<1>1. /\ \A k \in DOMAIN list : list[k].index < cap /\ list[k].joined # 0
      /\ \A j, k \in DOMAIN list : j < k => list[j].index < list[k].index
      /\ RosterRoot(list, cap) = PositionalRoot(TreeOf(r, c))
  BY DEF ActiveRosterOk, RosterPreimage, PositionsOk
<1>2. Distinct(list)
  BY <1>1, SortedDistinct DEF Numbered
<1>3. cap \in Nat
  BY CapacityAssumption
<1>4. IsRoster(RosterMap(list)) /\ MembersOf(RosterMap(list)) = {list[k].member : k \in DOMAIN list}
  BY <1>2, MapIsRoster
<1>5. PositionalRoot(TreeOf(RosterMap(list), cap)) = PositionalRoot(TreeOf(r, c))
  BY <1>1, <1>2, <1>3, RootOfMap
<1>6. Placed(RosterMap(list), cap)
  <2> SUFFICES ASSUME NEW i \in DOMAIN RosterMap(list)
               PROVE  i < cap /\ RosterMap(list)[i].joined # 0
    BY DEF Placed
  <2>4. DOMAIN RosterMap(list) = {list[k].index : k \in DOMAIN list}
    BY <1>2, MapFields
  <2>1. PICK k \in DOMAIN list : i = list[k].index
    BY <2>4
  <2>2. RosterMap(list)[i] = [member |-> list[k].member, joined |-> list[k].joined]
    BY <1>2, <2>1, MapFields
  <2>3. RosterMap(list)[i].joined = list[k].joined
    BY <2>2, PlaceFields
  <2> QED
    BY <1>1, <2>1, <2>3
<1>7. RosterMap(list) = r
  BY <1>4, <1>5, <1>6, RosterBinds
<1> QED
  BY <1>4, <1>7

(***************************************************************************)
(* The replay of the queue.                                                *)
(***************************************************************************)

\* It is the last of the chosen rosters.
LEMMA ReplayChosen ==
    ASSUME NEW q, NEW n
    PROVE  ReplayOn(q, n) = (CHOOSE f : After(f, q, n))[n]
BY DEF ReplayOn, After

\* They exist for every number of requests.
LEMMA AfterExists ==
    ASSUME Laws, NEW q, NEW n \in Nat
    PROVE  \E f : After(f, q, n)
<1> DEFINE Stuck == {m \in Nat : ~ \E f : After(f, q, m)}
<1> SUFFICES ASSUME Stuck # {} PROVE FALSE
  OBVIOUS
<1>1. PICK m \in Stuck : \A k \in Stuck : m <= k
  BY LeastNat
<1>2. CASE m = 0
  <2> DEFINE g == [i \in 0..0 |-> RosterMap(FirstRoster)]
  <2>1. \A i \in 0..0 : i = 0
    BY SMT
  <2>2. After(g, q, 0)
    BY <2>1 DEF After
  <2> QED
    BY <1>1, <1>2, <2>2
<1>3. CASE m # 0
  <2>1. m \in Nat /\ m - 1 \in Nat /\ m - 1 \notin Stuck /\ m \in 0..m
    BY <1>1, <1>3, SMT
  <2>2. PICK f : After(f, q, m - 1)
    BY <2>1
  <2> DEFINE g == [i \in 0..m |-> IF i = m THEN Changed(f[m - 1], q[m]) ELSE f[i]]
  <2>3. ASSUME NEW i \in 0..m
        PROVE  g[i] = IF i = 0 THEN RosterMap(FirstRoster) ELSE Changed(g[i - 1], q[i])
    <3>1. CASE i = m
      <4>1. m - 1 \in 0..m /\ m - 1 # m
        BY <2>1, SMT
      <4>2. g[m] = Changed(f[m - 1], q[m]) /\ g[m - 1] = f[m - 1]
        BY <2>1, <4>1
      <4> QED
        BY <1>3, <3>1, <4>2
    <3>2. CASE i # m
      <4>1. i \in 0..(m - 1) /\ (i # 0 => i - 1 \in 0..m /\ i - 1 # m)
        BY <2>1, <3>2, SMT
      <4>2. g[i] = f[i] /\ (i # 0 => g[i - 1] = f[i - 1])
        BY <3>2, <4>1
      <4>3. f[i] = IF i = 0 THEN RosterMap(FirstRoster) ELSE Changed(f[i - 1], q[i])
        BY <2>2, <4>1 DEF After
      <4> QED
        BY <4>2, <4>3
    <3> QED
      BY <3>1, <3>2
  <2>4. g = [i \in 0..m |-> g[i]]
    OBVIOUS
  <2> HIDE DEF g
  <2>5. After(g, q, m)
    BY <2>3, <2>4 DEF After
  <2> QED
    BY <1>1, <2>5
<1> QED
  BY <1>2, <1>3

\* Two replays are at the same roster.
SameAt(f, g, n) == f[n] = g[n]

\* Queues that start alike lead to the same rosters.
LEMMA AfterAgrees ==
    ASSUME Laws, NEW q, NEW p, NEW n \in Nat, NEW m \in Nat, n <= m, Alike(q, p, n),
           NEW f, After(f, q, n), NEW g, After(g, p, m)
    PROVE  SameAt(f, g, n)
<1> DEFINE Wrong == {k \in 0..n : f[k] # g[k]}
<1> SUFFICES ASSUME Wrong # {} PROVE FALSE
  <2>1. n \in 0..n
    BY SMT
  <2> QED
    BY <2>1 DEF SameAt
<1>1. Wrong \in SUBSET Nat
  BY SMT
<1>2. PICK k \in Wrong : \A j \in Wrong : k <= j
  BY <1>1, LeastNat
<1>3. k \in 0..n /\ k \in 0..m /\ k \in Nat
  <2>1. k \in 0..n
    BY <1>2
  <2> QED
    BY <2>1, SMT
<1>4. f[k] = IF k = 0 THEN RosterMap(FirstRoster) ELSE Changed(f[k - 1], q[k])
  BY <1>3 DEF After
<1>5. g[k] = IF k = 0 THEN RosterMap(FirstRoster) ELSE Changed(g[k - 1], p[k])
  BY <1>3 DEF After
<1>6. k # 0 => k \in 1..n /\ k - 1 \in 0..n /\ ~(k <= k - 1)
  BY <1>3, SMT
<1>7. k # 0 => q[k] = p[k] /\ f[k - 1] = g[k - 1]
  BY <1>2, <1>6 DEF Alike
<1>8. f[k] = g[k]
  BY <1>4, <1>5, <1>7
<1> QED
  BY <1>2, <1>8

\* The replay, request by request.
LEMMA ReplaySteps ==
    ASSUME Laws, NEW q, NEW n \in Nat
    PROVE  /\ ReplayOn(q, 0) = RosterMap(FirstRoster)
           /\ ReplayOn(q, n + 1) = Changed(ReplayOn(q, n), q[n + 1])
<1> DEFINE F(m) == CHOOSE f : After(f, q, m)
<1>1. ASSUME NEW m \in Nat PROVE After(F(m), q, m)
  BY AfterExists
<1> HIDE DEF F
<1>2. \A m : ReplayOn(q, m) = F(m)[m]
  BY ReplayChosen DEF F
<1>3. F(0)[0] = RosterMap(FirstRoster)
  <2>1. 0 \in Nat /\ 0 \in 0..0
    BY SMT
  <2> QED
    BY <1>1, <2>1 DEF After
<1>4. n + 1 \in Nat /\ n + 1 \in 0..(n + 1) /\ n + 1 # 0 /\ (n + 1) - 1 = n /\ n <= n + 1
  BY SMT
<1>5. F(n + 1)[n + 1] = Changed(F(n + 1)[n], q[n + 1])
  <2>1. After(F(n + 1), q, n + 1)
    BY <1>1, <1>4
  <2>2. F(n + 1)[n + 1] = Changed(F(n + 1)[(n + 1) - 1], q[n + 1])
    BY <1>4, <2>1 DEF After
  <2> QED
    BY <1>4, <2>2
<1>6. F(n)[n] = F(n + 1)[n]
  <2>1. After(F(n), q, n) /\ After(F(n + 1), q, n + 1)
    BY <1>1, <1>4
  <2>2. Alike(q, q, n)
    BY DEF Alike
  <2>3. SameAt(F(n), F(n + 1), n)
    BY <1>4, <2>1, <2>2, AfterAgrees
  <2> QED
    BY <2>3 DEF SameAt
<1> QED
  BY <1>2, <1>3, <1>5, <1>6

\* Requests behind it do not matter.
LEMMA ReplayPrefix ==
    ASSUME Laws, NEW q, NEW p, NEW n \in Nat, Alike(q, p, n)
    PROVE  ReplayOn(q, n) = ReplayOn(p, n)
<1> DEFINE f == CHOOSE h : After(h, q, n)
           g == CHOOSE h : After(h, p, n)
<1>1. After(f, q, n) /\ After(g, p, n)
  BY AfterExists
<1>2. n <= n
  BY SMT
<1> HIDE DEF f, g
<1>3. SameAt(f, g, n)
  BY <1>1, <1>2, AfterAgrees
<1> QED
  BY <1>3, ReplayChosen DEF SameAt, f, g

\* Replay is the replay on the queue.
LEMMA ReplayIs == \A n : Replay(n) = ReplayOn(queue, n)
BY DEF Replay, ReplayOn

(***************************************************************************)
(* The roster from step to step.                                           *)
(***************************************************************************)

\* What a change leaves of a roster.
Accepted(r, change, epoch, outboxEpoch, paid) ==
    /\ IsRoster(Changed(r, change)) /\ Unique(Changed(r, change))
    /\ \A i \in DOMAIN Changed(r, change) : Changed(r, change)[i].joined <= epoch
    /\ change.action = "remove" =>
         change.commitment \in {WithdrawalLeaf(outboxEpoch, w) : w \in paid}

\* The loop over roster_changes keeps the roster a roster of distinct accounts.
LEMMA ChangeKeeps ==
    ASSUME Laws, NEW r, IsRoster(r), Unique(r), NEW epoch \in Nat,
           \A i \in DOMAIN r : r[i].joined <= epoch,
           NEW change, change.index \in Nat, change.joined \in Nat, NEW outboxEpoch, NEW paid,
           ChangeOk(r, change, epoch, outboxEpoch, paid)
    PROVE  Accepted(r, change, epoch, outboxEpoch, paid)
<1> DEFINE s == Changed(r, change)
           x == change.index
<1>0. /\ IsFiniteSet(DOMAIN r) /\ DOMAIN r \subseteq Nat
      /\ r = [i \in DOMAIN r |-> [member |-> r[i].member, joined |-> r[i].joined]]
      /\ \A i \in DOMAIN r : r[i].joined \in Nat
  BY DEF IsRoster
<1>1. CASE change.action = "add" /\ AddOk(r, change, epoch)
  <2> DEFINE e == [member |-> change.member, joined |-> change.joined]
  <2>1. s = [i \in DOMAIN r \cup {x} |-> IF i = x THEN e ELSE r[i]]
    BY <1>1 DEF Changed, Added
  <2>2. e.member = change.member /\ e.joined = change.joined
    BY PlaceFields
  <2> HIDE DEF s, e
  <2>3. DOMAIN s = DOMAIN r \cup {x} /\ s[x] = e /\ \A i \in DOMAIN r : i # x => s[i] = r[i]
    BY <2>1
  <2>4. /\ change.joined = epoch /\ change.member \notin MembersOf(r) /\ x \notin DOMAIN r
    BY <1>1 DEF AddOk
  <2>5. \A i \in DOMAIN r : s[i] = r[i] /\ r[i].member # change.member
    BY <2>3, <2>4 DEF MembersOf
  <2>6. epoch <= epoch
    BY SMT
  <2>7. \A i \in DOMAIN s : s[i].joined \in Nat /\ s[i].joined <= epoch
    BY <1>0, <2>2, <2>3, <2>4, <2>5, <2>6
  <2>8. IsFiniteSet(DOMAIN s) /\ DOMAIN s \subseteq Nat
    <3>1. IsFiniteSet(DOMAIN r \cup {x})
      BY <1>0, FiniteAdd
    <3> QED
      BY <1>0, <2>3, <3>1
  <2>9. \A i \in DOMAIN s : s[i] = [member |-> s[i].member, joined |-> s[i].joined]
    <3>1. \A i \in DOMAIN r : r[i] = [member |-> r[i].member, joined |-> r[i].joined]
      BY <1>0
    <3>2. e = [member |-> e.member, joined |-> e.joined]
      BY <2>2 DEF e
    <3> QED
      BY <2>3, <2>5, <3>1, <3>2
  <2>10. s = [i \in DOMAIN s |-> s[i]]
    BY <2>1
  <2>11. IsRoster(s)
    <3>1. s = [i \in DOMAIN s |-> [member |-> s[i].member, joined |-> s[i].joined]]
      BY <2>9, <2>10
    <3> QED
      BY <2>7, <2>8, <3>1 DEF IsRoster
  <2>12. Unique(s)
    <3> SUFFICES ASSUME NEW i \in DOMAIN s, NEW j \in DOMAIN s, s[i].member = s[j].member
                 PROVE  i = j
      BY DEF Unique
    <3>1. CASE i = x \/ j = x
      BY <2>2, <2>3, <2>5, <3>1
    <3>2. CASE i \in DOMAIN r /\ j \in DOMAIN r
      <4>1. r[i].member = r[j].member
        BY <2>5, <3>2
      <4> QED
        BY <3>2, <4>1 DEF Unique
    <3> QED
      BY <2>3, <3>1, <3>2
  <2>13. change.action # "remove"
    BY <1>1
  <2> QED
    BY <2>7, <2>11, <2>12, <2>13 DEF Accepted, s
<1>2. CASE change.action = "remove" /\ RemoveOk(r, change, epoch, outboxEpoch, paid)
  <2>0. change.action # "add"
    BY <1>2
  <2>1. s = [i \in DOMAIN r \ {x} |-> r[i]]
    <3>1. DOMAIN r \cap (DOMAIN r \ {x}) = DOMAIN r \ {x}
      OBVIOUS
    <3> QED
      BY <2>0, <3>1 DEF Changed, Removed, Restrict
  <2> HIDE DEF s
  <2>2. DOMAIN s = DOMAIN r \ {x} /\ \A i \in DOMAIN s : s[i] = r[i]
    BY <2>1
  <2>3. IsFiniteSet(DOMAIN s)
    <3>1. DOMAIN s \in SUBSET DOMAIN r
      BY <2>2
    <3> QED
      BY <1>0, <3>1, FiniteSubset
  <2>4. s = [i \in DOMAIN s |-> [member |-> s[i].member, joined |-> s[i].joined]]
    <3>1. \A i \in DOMAIN s : s[i] = [member |-> s[i].member, joined |-> s[i].joined]
      BY <1>0, <2>2
    <3>2. s = [i \in DOMAIN s |-> s[i]]
      BY <2>1
    <3> QED
      BY <3>1, <3>2
  <2>5. IsRoster(s)
    BY <1>0, <2>2, <2>3, <2>4 DEF IsRoster
  <2>6. Unique(s)
    BY <2>2 DEF Unique
  <2>7. \A i \in DOMAIN s : s[i].joined <= epoch
    BY <2>2
  <2>8. change.commitment \in {WithdrawalLeaf(outboxEpoch, w) : w \in paid}
    BY <1>2 DEF RemoveOk
  <2> QED
    BY <2>5, <2>6, <2>7, <2>8 DEF Accepted, s
<1> QED
  BY <1>1, <1>2 DEF ChangeOk

\* The fields of an entry of the first roster.
LEMMA FirstFields ==
    \A x, k, m : x = [index |-> k - 1, member |-> m, joined |-> 1] => x.index = k - 1 /\ x.joined = 1
BY SMT

\* The first roster has distinct entries.
LEMMA FirstDistinct ==
    ASSUME Laws
    PROVE  Distinct(FirstRoster) /\ Unique(RosterMap(FirstRoster))
<1>1. IsFiniteSet(DOMAIN FirstRoster) /\ DOMAIN FirstRoster \subseteq Nat
  <2>1. Len(FirstRoster) \in Nat /\ DOMAIN FirstRoster = 1..Len(FirstRoster)
    BY RosterAssumption
  <2>2. 1 \in Int /\ Len(FirstRoster) \in Int /\ 1..Len(FirstRoster) \subseteq Nat
    BY <2>1, SMT
  <2> QED
    BY <2>1, <2>2, FiniteRange
<1>2. ASSUME NEW k \in DOMAIN FirstRoster
      PROVE  FirstRoster[k].index = k - 1 /\ FirstRoster[k].joined = 1 /\ k - 1 \in Nat
  <2>1. FirstRoster[k] = [index |-> k - 1, member |-> FirstRoster[k].member, joined |-> 1]
    BY RosterAssumption
  <2>2. k \in Nat /\ k # 0
    <3>1. k \in 1..Len(FirstRoster) /\ Len(FirstRoster) \in Nat
      BY RosterAssumption
    <3> QED
      BY <3>1, SMT
  <2>3. k - 1 \in Nat
    BY <2>2, SMT
  <2>4. FirstRoster[k].index = k - 1 /\ FirstRoster[k].joined = 1
    BY <2>1, FirstFields
  <2> QED
    BY <2>3, <2>4
<1>3. Distinct(FirstRoster)
  <2>1. ASSUME NEW j \in DOMAIN FirstRoster, NEW k \in DOMAIN FirstRoster,
               FirstRoster[j].index = FirstRoster[k].index
        PROVE  j = k
    <3>1. j - 1 = k - 1
      BY <1>2, <2>1
    <3>2. j \in Nat /\ k \in Nat
      BY <1>1
    <3> QED
      BY <3>1, <3>2, SMT
  <2>2. 1 \in Nat
    BY SMT
  <2> QED
    BY <1>1, <1>2, <2>1, <2>2 DEF Distinct
<1>4. Unique(RosterMap(FirstRoster))
  <2> DEFINE r == RosterMap(FirstRoster)
  <2>1. DOMAIN r = {FirstRoster[k].index : k \in DOMAIN FirstRoster}
    BY <1>3, MapFields
  <2>2. \A k \in DOMAIN FirstRoster : r[FirstRoster[k].index] =
          [member |-> FirstRoster[k].member, joined |-> FirstRoster[k].joined]
    BY <1>3, MapFields
  <2> HIDE DEF r
  <2>3. ASSUME NEW i \in DOMAIN r, NEW j \in DOMAIN r, r[i].member = r[j].member PROVE i = j
    <3>1. PICK k \in DOMAIN FirstRoster : i = FirstRoster[k].index
      BY <2>1
    <3>2. PICK l \in DOMAIN FirstRoster : j = FirstRoster[l].index
      BY <2>1
    <3>3. r[i].member = FirstRoster[k].member /\ r[j].member = FirstRoster[l].member
      <4>1. ASSUME NEW n \in DOMAIN FirstRoster
            PROVE  r[FirstRoster[n].index].member = FirstRoster[n].member
        <5>1. r[FirstRoster[n].index] = [member |-> FirstRoster[n].member, joined |-> FirstRoster[n].joined]
          BY <2>2
        <5> QED
          BY <5>1, PlaceFields
      <4> QED
        BY <3>1, <3>2, <4>1
    <3>4. k = l
      BY <2>3, <3>3, RosterAssumption
    <3> QED
      BY <3>1, <3>2, <3>4
  <2> QED
    BY <2>3 DEF Unique, r
<1> QED
  BY <1>3, <1>4

\* The first roster suits a capacity above its length, and it joined in epoch one.
LEMMA FirstPlaced ==
    ASSUME Laws, NEW c \in Capacities, c > Len(FirstRoster)
    PROVE  /\ Placed(RosterMap(FirstRoster), c)
           /\ \A i \in DOMAIN RosterMap(FirstRoster) : RosterMap(FirstRoster)[i].joined <= 1
<1> DEFINE r == RosterMap(FirstRoster)
<1>1. DOMAIN r = {FirstRoster[k].index : k \in DOMAIN FirstRoster}
  BY FirstDistinct, MapFields
<1>2. \A k \in DOMAIN FirstRoster : r[FirstRoster[k].index] =
        [member |-> FirstRoster[k].member, joined |-> FirstRoster[k].joined]
  BY FirstDistinct, MapFields
<1> HIDE DEF r
<1>3. ASSUME NEW i \in DOMAIN r PROVE i < c /\ r[i].joined = 1
  <2>1. PICK k \in DOMAIN FirstRoster : i = FirstRoster[k].index
    BY <1>1
  <2>2. FirstRoster[k] = [index |-> k - 1, member |-> FirstRoster[k].member, joined |-> 1]
    BY RosterAssumption
  <2>3. FirstRoster[k].index = k - 1 /\ FirstRoster[k].joined = 1
    BY <2>2, FirstFields
  <2>4. r[i].joined = 1
    <3>1. r[i] = [member |-> FirstRoster[k].member, joined |-> FirstRoster[k].joined]
      BY <1>2, <2>1
    <3>2. r[i].joined = FirstRoster[k].joined
      BY <3>1, PlaceFields
    <3> QED
      BY <2>3, <3>2
  <2>5. k - 1 < c
    <3>1. k \in 1..Len(FirstRoster) /\ Len(FirstRoster) \in Nat
      BY RosterAssumption
    <3>2. c \in Nat
      BY CapacityAssumption
    <3> QED
      BY <3>1, <3>2, SMTT(30)
  <2> QED
    BY <2>1, <2>3, <2>4, <2>5
<1>4. 1 # 0 /\ 1 <= 1
  BY SMT
<1> QED
  BY <1>3, <1>4 DEF Placed, r

\* Requests that are queued later do not matter to a room.
LEMMA SeatedAppend ==
    ASSUME Laws, NEW rm, NEW r, NEW q, NEW leaves, Seated(rm, r, q, leaves), Len(q) \in Nat,
           NEW p, Len(p) \in Nat, Len(q) <= Len(p), Alike(q, p, Len(q))
    PROVE  Seated(rm, r, p, leaves)
<1>1. /\ rm.cursor \in 0..Len(q) /\ r = ReplayOn(q, rm.cursor)
      /\ \A k \in 1..rm.cursor : q[k].action = "remove" => q[k].commitment \in leaves
  BY DEF Seated
<1>2. rm.cursor \in Nat /\ rm.cursor \in 0..Len(p) /\ \A k \in 1..rm.cursor : k \in 1..Len(q)
  BY <1>1, SMT
<1>3. Alike(q, p, rm.cursor)
  BY <1>2 DEF Alike
<1>4. ReplayOn(q, rm.cursor) = ReplayOn(p, rm.cursor)
  BY <1>2, <1>3, ReplayPrefix
<1>5. \A k \in 1..rm.cursor : p[k].action = "remove" => p[k].commitment \in leaves
  BY <1>1, <1>3 DEF Alike
<1> QED
  BY <1>1, <1>2, <1>4, <1>5 DEF Seated

\* Nor to its batch.
LEMMA SeatingAppend ==
    ASSUME Laws, NEW j, NEW rm, NEW r, NEW q, Seating(j, rm, r, q),
           rm.cursor \in Nat, Len(q) \in Nat,
           NEW p, Len(p) \in Nat, Len(q) <= Len(p), Alike(q, p, Len(q))
    PROVE  Seating(j, rm, r, p)
<1> DEFINE n == Len(j.changes)
<1>1. /\ n \in Nat /\ DOMAIN j.changes = 1..n /\ rm.cursor + n <= Len(q)
      /\ \A k \in DOMAIN j.changes : j.changes[k] = q[rm.cursor + k]
      /\ Applied(j) \in 0..n
      /\ j.expected = ReplayOn(q, rm.cursor + Applied(j))
  BY DEF Seating
<1> HIDE DEF n
<1>2. /\ rm.cursor + n <= Len(p) /\ rm.cursor + Applied(j) \in Nat
      /\ \A k \in 1..(rm.cursor + Applied(j)) : k \in 1..Len(q)
      /\ \A k \in 1..n : rm.cursor + k \in 1..Len(q)
  BY <1>1, SMTT(30)
<1>3. Alike(q, p, rm.cursor + Applied(j))
  BY <1>2 DEF Alike
<1>4. ReplayOn(q, rm.cursor + Applied(j)) = ReplayOn(p, rm.cursor + Applied(j))
  BY <1>2, <1>3, ReplayPrefix
<1>5. \A k \in DOMAIN j.changes : j.changes[k] = p[rm.cursor + k]
  BY <1>1, <1>2 DEF Alike
<1>6. rm.cursor + Len(j.changes) <= Len(p) /\ j.expected = ReplayOn(p, rm.cursor + Applied(j))
  BY <1>1, <1>2, <1>4 DEF n
<1> QED
  BY <1>5, <1>6 DEF Seating

\* One round of the loop over roster_changes takes the roster to what the next
\* request leads to.
LEMMA ApplySeats ==
    ASSUME Laws, NEW i, NEW rm, NEW r, NEW q, NEW leaves, Queued(q), Seated(rm, r, q, leaves),
           Seating(i, rm, r, q), i.pc = "roster", i.applied < Len(i.changes),
           ChangeOk(i.expected, i.changes[i.applied + 1], NextEpoch(i, rm), rm.batch + 1, i.paid),
           NEW j, j.pc = "roster", j.callers = i.callers, j.opening = i.opening,
           j.expected = Changed(i.expected, i.changes[i.applied + 1]), j.changes = i.changes,
           j.applied = i.applied + 1, j.paid = i.paid, j.capacity = i.capacity
    PROVE  Seating(j, rm, r, q)
<1> DEFINE n == i.applied
           m == Len(i.changes)
           change == i.changes[n + 1]
           e == NextEpoch(i, rm)
           s == Changed(i.expected, change)
           Paid(k) == i.changes[k].action = "remove" =>
             i.changes[k].commitment \in {WithdrawalLeaf(rm.batch + 1, w) : w \in i.paid}
<1>1. Applied(i) = n /\ Applied(j) = n + 1 /\ NextEpoch(j, rm) = e
  BY DEF Applied, NextEpoch
<1>2. /\ IsRoster(i.expected) /\ Unique(i.expected)
      /\ \A k \in DOMAIN i.expected : i.expected[k].joined <= e
      /\ m \in Nat /\ DOMAIN i.changes = 1..m /\ rm.cursor + m <= Len(q)
      /\ \A k \in DOMAIN i.changes : i.changes[k] = q[rm.cursor + k]
      /\ n \in 0..m /\ i.expected = ReplayOn(q, rm.cursor + n)
      /\ i.opening = r /\ i.callers = MembersOf(r) /\ i.capacity \in Capacities
  BY <1>1 DEF Seating
<1>3. \A k \in 1..n : Paid(k)
  BY <1>1 DEF Seating
<1>4. /\ Len(q) \in Nat /\ rm.cursor \in 0..Len(q) /\ rm.epoch \in Nat
      /\ DOMAIN q = 1..Len(q)
  BY DEF Queued, Seated, ListOf
<1> HIDE DEF m
<1>5. n \in Nat /\ rm.cursor \in Nat
  BY <1>2, <1>4, FromZero
<1>6. n < m
  BY DEF m
<1> HIDE DEF n
<1>7. /\ n + 1 \in 1..m /\ rm.cursor + (n + 1) = (rm.cursor + n) + 1 /\ rm.cursor + n \in Nat
      /\ rm.cursor + (n + 1) \in 1..Len(q) /\ n + 1 \in 0..m
      /\ \A k \in 1..(n + 1) : k \in 1..n \/ k = n + 1
  BY <1>2, <1>4, <1>5, <1>6, NextRequest, ZenonT(30)
<1>8. change = q[rm.cursor + (n + 1)]
  BY <1>2, <1>7
<1>9. change.index \in Nat /\ change.joined \in Nat
  BY <1>4, <1>7, <1>8 DEF Queued
<1>10. e \in Nat
  BY <1>4, EpochMoves
<1>11. ChangeOk(i.expected, change, e, rm.batch + 1, i.paid) /\ j.expected = s
       /\ j.applied = n + 1
  BY DEF n
<1> HIDE DEF change, e
<1>12. Accepted(i.expected, change, e, rm.batch + 1, i.paid)
  BY <1>2, <1>9, <1>10, <1>11, ChangeKeeps
<1>13. IsRoster(s) /\ Unique(s) /\ \A k \in DOMAIN s : s[k].joined <= e
  BY <1>12 DEF Accepted
<1>14. Paid(n + 1)
  BY <1>12 DEF Accepted, change
<1>15. s = ReplayOn(q, rm.cursor + (n + 1))
  <2>1. ReplayOn(q, (rm.cursor + n) + 1) = Changed(ReplayOn(q, rm.cursor + n), q[(rm.cursor + n) + 1])
    BY <1>7, ReplaySteps
  <2> QED
    BY <1>2, <1>7, <1>8, <2>1
<1>16. \A k \in 1..(n + 1) : Paid(k)
  BY <1>3, <1>7, <1>14
<1> HIDE DEF s
<1>17. /\ j.opening = r /\ j.callers = MembersOf(r) /\ j.capacity \in Capacities
       /\ IsRoster(j.expected) /\ Unique(j.expected)
       /\ \A k \in DOMAIN j.expected : j.expected[k].joined <= NextEpoch(j, rm)
  BY <1>1, <1>2, <1>11, <1>13
<1>18. /\ Len(j.changes) \in Nat /\ DOMAIN j.changes = 1..Len(j.changes)
       /\ rm.cursor + Len(j.changes) <= Len(q)
       /\ \A k \in DOMAIN j.changes : j.changes[k] = q[rm.cursor + k]
       /\ Applied(j) \in 0..Len(j.changes)
  BY <1>1, <1>2, <1>7 DEF m
<1>19. j.expected = ReplayOn(q, rm.cursor + Applied(j))
  BY <1>1, <1>11, <1>15
<1>20. \A k \in 1..Applied(j) : j.changes[k].action = "remove" =>
         j.changes[k].commitment \in {WithdrawalLeaf(rm.batch + 1, w) : w \in j.paid}
  BY <1>1, <1>16
<1> QED
  BY <1>17, <1>18, <1>19, <1>20 DEF Seating

\* The roster that an accepted batch leaves.
LEMMA AcceptSeats ==
    ASSUME Laws, NEW j, NEW rm, NEW r, NEW q, NEW leaves, Queued(q), Seated(rm, r, q, leaves),
           Seating(j, rm, r, q), j.pc = "blocks",
           RosterPreimage(RosterList(j.expected), j.capacity),
           NEW s, s.rosterRoot = RosterRoot(RosterList(j.expected), j.capacity),
           s.epoch = NextEpoch(j, rm), s.cursor = rm.cursor + Len(j.changes),
           NEW after, after = leaves \cup {WithdrawalLeaf(rm.batch + 1, w) : w \in j.paid}
    PROVE  Seated(s, j.expected, q, after)
<1> DEFINE m == Len(j.changes)
           x == j.expected
           c == j.capacity
           paid == {WithdrawalLeaf(rm.batch + 1, w) : w \in j.paid}
<1>1. Applied(j) = m
  <2>1. j.pc # "roster"
    OBVIOUS
  <2> QED
    BY <2>1 DEF Applied
<1>2. /\ c \in Capacities /\ IsRoster(x) /\ Unique(x)
      /\ \A i \in DOMAIN x : x[i].joined <= NextEpoch(j, rm)
      /\ m \in Nat /\ DOMAIN j.changes = 1..m /\ rm.cursor + m <= Len(q)
      /\ \A k \in DOMAIN j.changes : j.changes[k] = q[rm.cursor + k]
      /\ x = ReplayOn(q, rm.cursor + m)
  BY <1>1 DEF Seating
<1>3. \A k \in 1..m : j.changes[k].action = "remove" => j.changes[k].commitment \in paid
  BY <1>1 DEF Seating
<1>4. /\ Len(q) \in Nat /\ rm.cursor \in 0..Len(q) /\ rm.epoch \in Nat
      /\ \A k \in 1..rm.cursor : q[k].action = "remove" => q[k].commitment \in leaves
  BY DEF Queued, Seated
<1>5. s.cursor = rm.cursor + m /\ after = leaves \cup paid
  OBVIOUS
<1>6. Placed(x, c) /\ s.rosterRoot = PositionalRoot(TreeOf(x, c))
  BY <1>2, PreimagePlaced
<1> HIDE DEF m, x, c, paid
<1>7. rm.cursor \in Nat
  BY <1>4, FromZero
<1>8. /\ rm.cursor + m \in 0..Len(q)
      /\ \A k \in 1..(rm.cursor + m) :
           k \in 1..rm.cursor \/ (k - rm.cursor \in 1..m /\ rm.cursor + (k - rm.cursor) = k)
  BY <1>2, <1>4, <1>7, InRange
<1>9. ASSUME NEW k \in 1..(rm.cursor + m), q[k].action = "remove" PROVE q[k].commitment \in after
  <2>1. CASE k \in 1..rm.cursor
    BY <1>4, <1>5, <1>9, <2>1
  <2>2. CASE k - rm.cursor \in 1..m /\ rm.cursor + (k - rm.cursor) = k
    <3>1. j.changes[k - rm.cursor] = q[k]
      BY <1>2, <2>2
    <3> QED
      BY <1>3, <1>5, <1>9, <2>2, <3>1
  <2> QED
    BY <1>8, <2>1, <2>2
<1>10. s.epoch \in Nat
  BY <1>4, EpochMoves
<1>11. Seated(s, x, q, after)
  BY <1>2, <1>5, <1>6, <1>8, <1>9, <1>10 DEF Seated
<1> QED
  BY <1>11 DEF x

\* Requests that come while a batch is proved do not matter to it.
LEMMA QueueLed ==
    ASSUME Laws
    PROVE  Led /\ QueueChange => Led'
<1> SUFFICES ASSUME Led, QueueChange PROVE Led'
  OBVIOUS
<1>1. /\ room # Nothing /\ room.mode = 0
      /\ policy' = policy /\ room' = room /\ roster' = roster /\ outbox' = outbox /\ job' = job
  BY DEF QueueChange
<1> DEFINE Leaf(r) == IF r.action = "add" THEN <<>>
                      ELSE WithdrawalLeaf(room.batch + 1,
                             [index |-> r.index, epoch |-> room.epoch + 1,
                              recipient |-> r.member, asset |-> 1, amount |-> 1])
           Request(r) == [id |-> Len(queue) + 1, action |-> r.action, index |-> r.index,
                          member |-> r.member, joined |-> r.joined, commitment |-> Leaf(r)]
<1>2. PICK r \in Requests : queue' = Append(queue, Request(r))
  BY DEF QueueChange
<1> DEFINE x == Request(r)
<1>3. x.id = Len(queue) + 1 /\ x.index = r.index /\ x.joined = r.joined
  <2> HIDE DEF Leaf
  <2> QED
    BY RequestRecord
<1>4. queue' = Append(queue, x)
  BY <1>2
<1> HIDE DEF x
<1>5. Len(queue) \in Nat /\ ListOf(queue, Len(queue))
  BY DEF Led, Queued
<1>6. /\ Len(queue') = Len(queue) + 1 /\ ListOf(queue', Len(queue'))
      /\ queue'[Len(queue) + 1] = x /\ Alike(queue, queue', Len(queue))
  BY <1>4, <1>5, QueueGrows
<1>7. Len(queue') \in Nat /\ Len(queue) <= Len(queue')
  BY <1>5, <1>6, SMTT(30)
<1>8. Queued(queue')
  <2>1. ASSUME NEW i \in DOMAIN queue'
        PROVE  queue'[i].id = i /\ queue'[i].index \in Nat /\ queue'[i].joined \in Nat
    <3>1. i \in 1..(Len(queue) + 1)
      BY <1>6 DEF ListOf
    <3>2. CASE i = Len(queue) + 1
      <4>1. r.index \in Nat /\ r.joined \in Nat
        BY RosterAssumption
      <4> QED
        BY <1>3, <1>6, <3>2, <4>1
    <3>3. CASE i # Len(queue) + 1
      <4>1. i \in 1..Len(queue)
        BY <1>5, <3>1, <3>3, SMTT(30)
      <4>2. queue'[i] = queue[i] /\ i \in DOMAIN queue
        BY <1>5, <1>6, <4>1 DEF Alike, ListOf
      <4> QED
        BY <4>2 DEF Led, Queued
    <3> QED
      BY <3>2, <3>3
  <2> QED
    BY <1>6, <1>7, <2>1 DEF Queued
<1>9. Seated(room, roster, queue', outbox)
  <2>1. Seated(room, roster, queue, outbox)
    BY <1>1 DEF Led
  <2> QED
    BY <1>5, <1>6, <1>7, <2>1, SeatedAppend
<1>10. job # Nothing => Seating(job, room, roster, queue')
  <2> SUFFICES ASSUME job # Nothing PROVE Seating(job, room, roster, queue')
    OBVIOUS
  <2>1. Seating(job, room, roster, queue) /\ Seated(room, roster, queue, outbox)
    BY <1>1 DEF Led
  <2>2. room.cursor \in Nat
    <3>1. room.cursor \in 0..Len(queue)
      BY <2>1 DEF Seated
    <3> QED
      BY <1>5, <3>1, SMTT(30)
  <2> QED
    BY <1>5, <1>6, <1>7, <2>1, <2>2, SeatingAppend
<1>11. job # Nothing => Bodied(job, room, policy)
  BY DEF Led
<1> QED
  BY <1>1, <1>8, <1>9, <1>10, <1>11 DEF Led

\* The creation of a room.
LEMMA RegisterLed ==
    ASSUME Laws
    PROVE  Kept /\ Led /\ Register => Led'
<1> SUFFICES ASSUME Kept, Led, Register PROVE Led'
  OBVIOUS
<1>1. /\ policy' = policy /\ queue' = queue /\ outbox' = outbox /\ job' = job
      /\ room = Nothing
  BY DEF Register
<1>2. job' = Nothing /\ Queued(queue')
  BY <1>1 DEF Kept, Led
<1> DEFINE New(mode, capacity) ==
             [mode |-> mode, batch |-> 0, closed |-> FALSE, root |-> InitialRoot,
              participants |-> ParticipantsAt(Genesis),
              rosterRoot |-> IF mode = 0 THEN RosterRoot(FirstRoster, capacity) ELSE <<>>,
              epoch |-> 1, cursor |-> 0, imports |-> 0]
<1>3. PICK mode \in Modes[policy], capacity \in Capacities :
        /\ capacity > Len(FirstRoster)
        /\ roster' = IF mode = 0 THEN RosterMap(FirstRoster) ELSE <<>>
        /\ room' = New(mode, capacity)
  BY DEF Register
<1>4. ASSUME room'.mode = 0 PROVE Seated(room', roster', queue', outbox')
  <2>1. /\ room'.mode = mode /\ room'.epoch = 1 /\ room'.cursor = 0
        /\ mode = 0 => room'.rosterRoot = RosterRoot(FirstRoster, capacity)
    <3> DEFINE root == InitialRoot
               participants == ParticipantsAt(Genesis)
               roots == IF mode = 0 THEN RosterRoot(FirstRoster, capacity) ELSE <<>>
    <3>1. room' = [mode |-> mode, batch |-> 0, closed |-> FALSE, root |-> root,
                   participants |-> participants, rosterRoot |-> roots,
                   epoch |-> 1, cursor |-> 0, imports |-> 0]
      BY <1>3
    <3> HIDE DEF root, participants, roots
    <3>2. room'.mode = mode /\ room'.epoch = 1 /\ room'.cursor = 0 /\ room'.rosterRoot = roots
      BY <3>1, CreatedRecord
    <3> QED
      BY <3>2 DEF roots
  <2>2. mode = 0
    BY <1>4, <2>1
  <2> DEFINE r == RosterMap(FirstRoster)
  <2>3. roster' = r /\ room'.rosterRoot = RosterRoot(FirstRoster, capacity)
    BY <1>3, <2>1, <2>2
  <2>4. Distinct(FirstRoster) /\ Unique(r)
    BY FirstDistinct
  <2>5. IsRoster(r)
    BY <2>4, MapIsRoster
  <2>6. Placed(r, capacity) /\ \A i \in DOMAIN r : r[i].joined <= 1
    BY <1>3, FirstPlaced
  <2>7. RosterRoot(FirstRoster, capacity) = PositionalRoot(TreeOf(r, capacity))
    <3>1. capacity \in Nat
      BY CapacityAssumption
    <3> QED
      BY <2>4, <3>1, RootOfMap
  <2>8. 0 \in Nat /\ 1 \in Nat /\ \A k \in 1..0 : FALSE
    BY SMT
  <2>9. r = ReplayOn(queue', 0)
    BY <2>8, ReplaySteps
  <2>10. 0 \in 0..Len(queue')
    <3>1. Len(queue') \in Nat
      BY <1>2 DEF Queued
    <3> QED
      BY <3>1, SMT
  <2> HIDE DEF r
  <2>11. Seated(room', r, queue', outbox')
    BY <2>1, <2>3, <2>4, <2>5, <2>6, <2>7, <2>8, <2>9, <2>10 DEF Seated
  <2> QED
    BY <2>3, <2>11
<1> QED
  BY <1>2, <1>4 DEF Led

\* The head of a batch: whichever list the prover presents, it opens on the room's
\* roster.
LEMMA StartLed ==
    ASSUME Laws
    PROVE  Led /\ StartBatch => Led'
<1> SUFFICES ASSUME Led, StartBatch PROVE Led'
  OBVIOUS
<1>1. /\ policy' = policy /\ room' = room /\ roster' = roster /\ queue' = queue /\ outbox' = outbox
      /\ room # Nothing
  BY DEF StartBatch
<1> DEFINE Started(body, close, callers, expected, changes, paid, capacity) ==
             [pc |-> "roster", body |-> body, close |-> close,
              callers |-> callers, opening |-> expected, expected |-> expected,
              changes |-> changes, applied |-> 0, paid |-> paid, capacity |-> capacity]
<1>2. ASSUME NEW body, NEW close, NEW callers, NEW expected, NEW changes, NEW paid, NEW capacity,
             job' = Started(body, close, callers, expected, changes, paid, capacity)
      PROVE  Starts(job', body, callers, expected, changes, paid, capacity)
  BY <1>2, StartedRecord
<1> HIDE DEF Started
<1>3. ASSUME NEW body \in Bodies[policy], NEW callers, NEW expected, NEW changes, NEW paid,
             NEW capacity, Starts(job', body, callers, expected, changes, paid, capacity)
      PROVE  Bodied(job', room, policy)
  BY <1>3 DEF Starts, Bodied
<1>4. PICK body \in Bodies[policy], close \in BOOLEAN :
        /\ Len(body) \in 1..policy.maxBlocks
        /\ Len(body) = 1 => close
        /\ \/ /\ room.mode = 1 /\ Signers(body) # {}
              /\ job' = Started(body, close, Signers(body), <<>>, <<>>, {}, 0)
           \/ /\ room.mode = 0
              /\ \E list \in RosterLists, capacity \in Capacities,
                    changes \in UNION {[1..n -> Range(queue)] : n \in 0..Len(queue)} :
                   /\ ActiveRosterOk(list, capacity, room.rosterRoot)
                   /\ Contiguous(changes)
                   /\ \E paid \in Allocations(changes) :
                        job' = Started(body, close, Callers(list, changes), RosterMap(list),
                                       changes, paid, capacity)
  BY DEF StartBatch, Started
<1>5. Queued(queue) /\ (room.mode = 0 => Seated(room, roster, queue, outbox))
  BY <1>1 DEF Led
<1>6. CASE room.mode # 0
  <2>1. Bodied(job', room, policy)
    <3>1. job' = Started(body, close, Signers(body), <<>>, <<>>, {}, 0)
      BY <1>4, <1>6
    <3>2. Starts(job', body, Signers(body), <<>>, <<>>, {}, 0)
      BY <1>2, <3>1
    <3> QED
      BY <1>3, <3>2
  <2> QED
    BY <1>1, <1>5, <1>6, <2>1 DEF Led
<1>7. CASE room.mode = 0
  <2>1. \E list \in RosterLists, capacity \in Capacities,
           changes \in UNION {[1..n -> Range(queue)] : n \in 0..Len(queue)} :
          /\ ActiveRosterOk(list, capacity, room.rosterRoot)
          /\ Contiguous(changes)
          /\ \E paid \in Allocations(changes) :
               job' = Started(body, close, Callers(list, changes), RosterMap(list),
                              changes, paid, capacity)
    <3>1. room.mode # 1
      BY <1>7, SMT
    <3> QED
      BY <1>4, <3>1
  <2>2. PICK list \in RosterLists, capacity \in Capacities,
             changes \in UNION {[1..n -> Range(queue)] : n \in 0..Len(queue)} :
          /\ ActiveRosterOk(list, capacity, room.rosterRoot)
          /\ Contiguous(changes)
          /\ \E paid \in Allocations(changes) :
               job' = Started(body, close, Callers(list, changes), RosterMap(list),
                              changes, paid, capacity)
    BY <2>1
  <2>3. PICK paid \in Allocations(changes) :
          job' = Started(body, close, Callers(list, changes), RosterMap(list),
                         changes, paid, capacity)
    BY <2>2
  <2>4. Starts(job', body, Callers(list, changes), RosterMap(list), changes, paid, capacity)
    BY <1>2, <2>3
  <2>5. Bodied(job', room, policy)
    BY <1>3, <2>4
  <2>6. Seated(room, roster, queue, outbox)
    BY <1>5, <1>7
  <2>7. IsRoster(roster)
    BY <2>6 DEF Seated
  <2>8. PICK c \in Capacities : Placed(roster, c) /\ room.rosterRoot = PositionalRoot(TreeOf(roster, c))
    BY <2>6 DEF Seated
  <2>9. Numbered(list)
    BY <2>7, PresentedNumbered
  <2>10. ActiveRosterOk(list, capacity, PositionalRoot(TreeOf(roster, c)))
    BY <2>2, <2>8
  <2>11. RosterMap(list) = roster /\ {list[k].member : k \in DOMAIN list} = MembersOf(roster)
    BY <2>7, <2>8, <2>9, <2>10, OpensRoster
  <2>12. Starts(job', body, MembersOf(roster), roster, changes, paid, capacity)
    BY <2>4, <2>11 DEF Callers
  <2>13. \A k \in DOMAIN changes : changes[k].id = room.cursor + k
    BY <2>2 DEF Contiguous
  <2>14. Seating(job', room, roster, queue)
    BY <1>5, <2>6, <2>12, <2>13, StartSeats
  <2> QED
    BY <1>1, <1>5, <2>5, <2>6, <2>14 DEF Led
<1> QED
  BY <1>6, <1>7

\* A round of the loop.
LEMMA ApplyLed ==
    ASSUME Laws
    PROVE  Kept /\ Led /\ ApplyChange => Led'
<1> SUFFICES ASSUME Kept, Led, ApplyChange PROVE Led'
  OBVIOUS
<1> DEFINE change == job.changes[job.applied + 1]
           e == Changed(job.expected, change)
<1>1. /\ policy' = policy /\ room' = room /\ roster' = roster /\ queue' = queue /\ outbox' = outbox
      /\ job # Nothing /\ job.pc = "roster" /\ job.applied < Len(job.changes)
      /\ ChangeOk(job.expected, change, PostEpoch, room.batch + 1, job.paid)
      /\ job' = [job EXCEPT !.expected = Changed(@, change), !.applied = @ + 1]
  BY DEF ApplyChange
<1>2. DOMAIN job = StartedFields
  BY <1>1 DEF Kept
<1>3. job' = [job EXCEPT !.expected = e, !.applied = job.applied + 1]
  BY <1>1
<1> HIDE DEF e
<1>4. /\ job'.pc = job.pc /\ job'.body = job.body /\ job'.callers = job.callers
      /\ job'.opening = job.opening /\ job'.expected = e /\ job'.changes = job.changes
      /\ job'.applied = job.applied + 1 /\ job'.paid = job.paid /\ job'.capacity = job.capacity
  <2>1. Advances(job', job, e, job.applied + 1)
    BY <1>2, <1>3, AppliedRecord
  <2> QED
    BY <2>1 DEF Advances
<1>5. Bodied(job', room, policy)
  <2>1. job'.pc # "blocks"
    BY <1>1, <1>4
  <2>2. job'.body \in Bodies[policy]
    BY <1>1, <1>4 DEF Led, Bodied
  <2> QED
    BY <2>1, <2>2 DEF Bodied
<1>6. room # Nothing /\ room.mode = 0 => Seating(job', room, roster, queue)
  <2> SUFFICES ASSUME room # Nothing, room.mode = 0 PROVE Seating(job', room, roster, queue)
    OBVIOUS
  <2>1. Queued(queue) /\ Seated(room, roster, queue, outbox) /\ Seating(job, room, roster, queue)
    BY <1>1 DEF Led
  <2>2. PostEpoch = NextEpoch(job, room)
    BY DEF PostEpoch, NextEpoch
  <2>3. ChangeOk(job.expected, change, NextEpoch(job, room), room.batch + 1, job.paid)
    BY <1>1, <2>2
  <2> QED
    BY <1>1, <1>4, <2>1, <2>3, ApplySeats DEF e
<1> QED
  BY <1>1, <1>5, <1>6 DEF Led

\* An accepted batch.
LEMMA AcceptLed ==
    ASSUME Laws
    PROVE  Kept /\ Led /\ AcceptBatch => Led'
<1> SUFFICES ASSUME Kept, Led, AcceptBatch PROVE Led'
  OBVIOUS
<1>1. /\ queue' = queue /\ job # Nothing /\ job.pc = "blocks" /\ job' = Nothing
      /\ roster' = job.expected
      /\ outbox' = outbox \cup {WithdrawalLeaf(room.batch + 1, w) : w \in job.paid}
      /\ room.mode = 0 => RosterPreimage(RosterList(job.expected), job.capacity)
  BY DEF AcceptBatch, InBlock
<1>2. room # Nothing /\ DOMAIN room = RoomFields
  BY <1>1 DEF Kept, Opened
<1> DEFINE root == RoomStateRoot(job.state, policy.commitment)
           participants == ParticipantsAt(job.state.accounts)
           rosterRoot == IF room.mode = 0
                         THEN RosterRoot(RosterList(job.expected), job.capacity)
                         ELSE room.rosterRoot
           epoch == PostEpoch
           batch == room.batch + 1
           cursor == room.cursor + Len(job.changes)
           imports == IF job.import THEN room.imports + 1 ELSE room.imports
<1>3. room' = [room EXCEPT
        !.batch = batch, !.closed = job.close, !.root = root, !.participants = participants,
        !.rosterRoot = rosterRoot, !.epoch = epoch, !.cursor = cursor, !.imports = imports]
  BY DEF AcceptBatch
<1> HIDE DEF root, participants, rosterRoot, epoch, batch, cursor, imports
<1>4. /\ room'.mode = room.mode /\ room'.rosterRoot = rosterRoot /\ room'.epoch = epoch
      /\ room'.cursor = cursor
  <2> DEFINE close == job.close
  <2>1. room' = [room EXCEPT
          !.batch = batch, !.closed = close, !.root = root, !.participants = participants,
          !.rosterRoot = rosterRoot, !.epoch = epoch, !.cursor = cursor, !.imports = imports]
    BY <1>3
  <2> HIDE DEF close
  <2>2. Moves(room', room, rosterRoot, epoch, cursor)
    BY <1>2, <2>1, AcceptedRecord
  <2> QED
    BY <2>2 DEF Moves
<1>5. ASSUME room'.mode = 0 PROVE Seated(room', roster', queue', outbox')
  <2>1. room.mode = 0
    BY <1>4, <1>5
  <2>2. Queued(queue) /\ Seated(room, roster, queue, outbox) /\ Seating(job, room, roster, queue)
    BY <1>1, <1>2, <2>1 DEF Led
  <2>3. RosterPreimage(RosterList(job.expected), job.capacity)
    BY <1>1, <2>1
  <2>4. room'.rosterRoot = RosterRoot(RosterList(job.expected), job.capacity)
    BY <1>4, <2>1 DEF rosterRoot
  <2>5. room'.epoch = NextEpoch(job, room) /\ room'.cursor = room.cursor + Len(job.changes)
    BY <1>4 DEF epoch, cursor, PostEpoch, NextEpoch
  <2>6. Seated(room', job.expected, queue, outbox')
    BY <1>1, <2>2, <2>3, <2>4, <2>5, AcceptSeats
  <2> QED
    BY <1>1, <2>6
<1>6. Queued(queue')
  BY <1>1 DEF Led
<1> QED
  BY <1>1, <1>5, <1>6 DEF Led

(***************************************************************************)
(* What the room keeps.                                                    *)
(***************************************************************************)

\* What a batch leaves fits into a compact witness: it stayed within the accounts and
\* slots that its own witness declared.
LEMMA EnvelopeFits ==
    ASSUME Laws, NEW S, NEW st, Running(S, st)
    PROVE  Fits(st.accounts)
<1> DEFINE B == st.accounts
<1>1. Envelope(st.declared) /\ Within(B, st.declared)
  BY DEF Running
<1>2. PICK w : /\ CompactOk(w) /\ DeclaresWords(w)
               /\ st.declared = [a \in DOMAIN w |-> DOMAIN w[a].slots]
  BY <1>1 DEF Envelope
<1>3. DOMAIN st.declared = DOMAIN w /\ \A a \in DOMAIN w : st.declared[a] = DOMAIN w[a].slots
  BY <1>2
<1> HIDE DEF B
<1>4. DOMAIN B \subseteq DOMAIN w
  BY <1>1, <1>3 DEF Within
<1>5. IsFiniteSet(DOMAIN w)
  BY <1>2, FiniteSubset, StateAssumption DEF DeclaresWords
<1>6. ASSUME NEW a \in DOMAIN B, NEW s \in {x \in Slot : B[a].storage[x] # 0}
      PROVE  <<a, s>> \in {<<a, t>> : t \in DOMAIN w[a].slots} /\ a \in DOMAIN w
  <2>1. s \in DOMAIN w[a].slots
    BY <1>1, <1>3, <1>4 DEF Within
  <2> QED
    BY <1>4, <2>1
<1>7. UsedSlots(B) \subseteq DeclaredSlots(w)
  <2> SUFFICES ASSUME NEW u \in UsedSlots(B) PROVE u \in DeclaredSlots(w)
    OBVIOUS
  <2>1. PICK a \in DOMAIN B : \E s \in {x \in Slot : B[a].storage[x] # 0} : u = <<a, s>>
    BY DEF UsedSlots
  <2>2. PICK s \in {x \in Slot : B[a].storage[x] # 0} : u = <<a, s>>
    BY <2>1
  <2>3. u \in {<<a, t>> : t \in DOMAIN w[a].slots} /\ a \in DOMAIN w
    BY <1>6, <2>2
  <2> QED
    BY <2>3 DEF DeclaredSlots
<1>8. DeclaredSlots(w) \subseteq Addr \X Slot
  <2> SUFFICES ASSUME NEW u \in DeclaredSlots(w) PROVE u \in Addr \X Slot
    OBVIOUS
  <2>1. PICK a \in DOMAIN w : u \in {<<a, s>> : s \in DOMAIN w[a].slots}
    BY DEF DeclaredSlots
  <2>2. PICK s \in DOMAIN w[a].slots : u = <<a, s>>
    BY <2>1
  <2>3. a \in Addr /\ s \in Slot
    BY <1>2 DEF DeclaresWords
  <2> QED
    BY <2>2, <2>3, SMT
<1>9. IsFiniteSet(DeclaredSlots(w))
  <2>1. IsFiniteSet(Addr \X Slot)
    BY FiniteProduct, StateAssumption
  <2> QED
    BY <1>8, <2>1, FiniteSubset
<1>10. /\ IsFiniteSet(DOMAIN B) /\ Cardinality(DOMAIN B) <= Cardinality(DOMAIN w)
       /\ IsFiniteSet(UsedSlots(B)) /\ Cardinality(UsedSlots(B)) <= Cardinality(DeclaredSlots(w))
  BY <1>4, <1>5, <1>7, <1>9, FiniteSubset
<1>11. /\ Cardinality(DOMAIN w) <= MaxAccounts
       /\ Cardinality(DeclaredSlots(w)) <= MaxSlots
  BY <1>2 DEF CompactOk
<1>12. /\ Cardinality(DOMAIN w) \in Nat /\ Cardinality(DeclaredSlots(w)) \in Nat
       /\ Cardinality(DOMAIN B) \in Nat /\ Cardinality(UsedSlots(B)) \in Nat
  BY <1>5, <1>9, <1>10, FiniteSize
<1>13. MaxAccounts \in Nat /\ MaxSlots \in Nat
  BY StateAssumption
<1>14. Cardinality(DOMAIN B) <= MaxAccounts /\ Cardinality(UsedSlots(B)) <= MaxSlots
  BY <1>10, <1>11, <1>12, <1>13, SMTT(30)
<1> QED
  BY <1>14 DEF Fits, B

\* An accepted batch leaves a room whose policy still holds, with what it may not
\* write untouched.
LEMMA AcceptKeeps ==
    ASSUME Laws
    PROVE  Kept /\ AcceptBatch => Kept'
<1> SUFFICES ASSUME Kept, AcceptBatch PROVE Kept'
  OBVIOUS
<1> DEFINE S == job.snapshot
           st == job.state
           B == st.accounts
           c == policy.commitment
<1>1. /\ job # Nothing /\ job.pc = "blocks" /\ ValidatePostState(policy, S, B) /\ RegistryKept(B)
      /\ truth' = B /\ job' = Nothing /\ policy' = policy
  BY DEF AcceptBatch, InBlock
<1>2. /\ policy \in Policies /\ room # Nothing /\ Opened /\ InBlocks /\ Unwritten
      /\ AccountsOK(truth)
  BY <1>1 DEF Kept
<1>3. /\ DOMAIN room' = RoomFields /\ room'.root = RoomStateRoot(st, c)
      /\ room'.participants = ParticipantsAt(B) /\ room'.batch = room.batch + 1
  <2>1. DOMAIN room = RoomFields
    BY <1>2 DEF Opened
  <2> DEFINE root == RoomStateRoot(st, c)
             participants == ParticipantsAt(B)
             rosterRoot == IF room.mode = 0
                           THEN RosterRoot(RosterList(job.expected), job.capacity)
                           ELSE room.rosterRoot
             epoch == PostEpoch
  <2>2. room' = [room EXCEPT
          !.batch = @ + 1, !.closed = job.close, !.root = root, !.participants = participants,
          !.rosterRoot = rosterRoot, !.epoch = epoch, !.cursor = @ + Len(job.changes),
          !.imports = IF job.import THEN @ + 1 ELSE @]
    BY DEF AcceptBatch
  <2> HIDE DEF root, participants, rosterRoot, epoch
  <2>3. /\ DOMAIN room' = RoomFields /\ room'.root = root
        /\ room'.participants = participants /\ room'.batch = room.batch + 1
    BY <2>1, <2>2, SMT DEF RoomFields
  <2> QED
    BY <2>3 DEF root, participants
<1>4. /\ Certified(policy) /\ CodePinned(policy, Genesis) /\ room.batch \in Nat
      /\ room.participants["capacity"] = ParticipantsAt(Genesis)["capacity"]
  BY <1>2 DEF Opened
<1>5. /\ Supplied(policy.imports, truth, S) /\ CodePinned(policy, S) /\ StorageOk(policy, S)
      /\ Running(S, st)
  BY <1>2 DEF InBlocks
<1>6. AccountsOK(B)
  BY <1>5 DEF Running
<1>7. CodePinned(policy, B) /\ StorageOk(policy, B) /\ Solid(B) /\ Fits(B)
  BY <1>1, <1>5, PostAdmitted, EnvelopeFits
<1>8. RoomStateRoot(st, c) = RootOf(B, c)
  BY <1>4, <1>6, Layout, RootHashes DEF Certified
<1>9. ParticipantsOk(B) /\ ParticipantsAt(B)["capacity"] = room.participants["capacity"]
  BY <1>1 DEF RegistryKept
<1> HIDE DEF S, st, B, c
<1>10. /\ ParticipantsAt(truth)' = ParticipantsAt(B) /\ (ParticipantsOk(truth)' <=> ParticipantsOk(B))
       /\ ParticipantsAt(Genesis)' = ParticipantsAt(Genesis)
  BY <1>1 DEF ParticipantsAt, ParticipantsOk
<1>11. room'.batch \in Nat
  BY <1>3, <1>4, SMT
<1>12. Opened'
  BY <1>1, <1>3, <1>4, <1>7, <1>8, <1>9, <1>10, <1>11 DEF Opened, c
<1>13. ASSUME NEW a \in DOMAIN Genesis, a \in DOMAIN policy.code
       PROVE  a \in DOMAIN B /\ B[a].code = Genesis[a].code
  <2>1. a \in DOMAIN B /\ CodeHash(B[a]) = policy.code[a] /\ CodeHash(Genesis[a]) = policy.code[a]
    BY <1>4, <1>7, <1>13 DEF CodePinned
  <2>2. PICK x, y : x = B[a] /\ y = Genesis[a]
    OBVIOUS
  <2>3. CodeHash(x) = CodeHash(y)
    BY <2>1, <2>2
  <2>4. x.code = y.code
    BY <2>3, SameHash
  <2> QED
    BY <2>1, <2>2, <2>4
<1>14. ASSUME NEW a \in DOMAIN Genesis, NEW s \in Slot, ~Writable(policy, a, s), <<a, s>> # CreditAt
       PROVE  SlotAt(B, a, s) = Genesis[a].storage[s]
  <2>0. ImportsOk(policy)
    BY <1>4 DEF Certified
  <2>1. SlotAt(B, a, s) = SlotAt(truth, a, s)
    <3>1. Steady(policy, truth, B)
      BY <1>1, <1>5, <2>0, SlotKept
    <3> QED
      BY <1>14, <3>1 DEF Steady
  <2>2. SlotAt(truth, a, s) = Genesis[a].storage[s]
    BY <1>2, <1>14 DEF Unwritten
  <2> QED
    BY <2>1, <2>2
<1>15. Unwritten'
  BY <1>1, <1>13, <1>14 DEF Unwritten
<1> QED
  BY <1>1, <1>2, <1>6, <1>12, <1>15 DEF Kept

INSTANCE FiniteSetTheorems

\* The library proves these laws.
LEMMA LawsHold == Laws
<1>1. \A T \in SUBSET Nat : T # {} => \E n \in T : \A m \in T : n <= m
  <2> SUFFICES ASSUME NEW T \in SUBSET Nat, T # {} PROVE \E n \in T : \A m \in T : n <= m
    OBVIOUS
  <2>1. PICK n \in T : \A m \in T : <<m, n>> \notin OpToRel(<, Nat)
    BY NatLessThanWellFounded, WFMin
  <2>2. \A m \in T : ~ (m < n)
    BY <2>1 DEF OpToRel
  <2> QED
    BY <2>2, SMT
<1>2. \A S, T : \A f \in Surjection(S, T) : IsFiniteSet(S) => IsFiniteSet(T)
  BY FS_Surjection
<1>3. \A S, T : \A f \in Injection(S, T) : IsFiniteSet(T) =>
        (Cardinality(S) = Cardinality(T) <=> f \in Surjection(S, T))
  BY FS_Injection
<1>4. \A S : IsFiniteSet(S) => Cardinality(S) \in Nat
  BY FS_CardinalityType
<1>5. \A S : IsFiniteSet(S) => \A T \in SUBSET S : /\ IsFiniteSet(T)
                                                   /\ Cardinality(T) <= Cardinality(S)
                                                   /\ Cardinality(S) = Cardinality(T) => S = T
  BY FS_Subset
<1>6. \A a, b \in Int : /\ IsFiniteSet(a..b)
                        /\ Cardinality(a..b) = IF a > b THEN 0 ELSE b - a + 1
  BY FS_Interval
<1>7. \A S, x : IsFiniteSet(S) => IsFiniteSet(S \cup {x})
  BY FS_AddElement
<1>8. \A S, T : IsFiniteSet(S) /\ IsFiniteSet(T) => IsFiniteSet(S \X T)
  BY FS_Product
<1> QED
  BY <1>1, <1>2, <1>3, <1>4, <1>5, <1>6, <1>7, <1>8 DEF Laws

\* Kept is inductive.
LEMMA KeptInductive ==
    /\ Init => Kept
    /\ Kept /\ [Next]_vars => Kept'
<1>1. Init => Kept
  <2> SUFFICES ASSUME Init PROVE Kept
    OBVIOUS
  <2>1. policy \in Policies /\ truth = Genesis /\ room = Nothing /\ job = Nothing
    BY DEF Init
  <2>2. AccountsOK(truth)
    BY <2>1, StateAssumption
  <2>3. Unwritten
    BY <2>1 DEF Unwritten, SlotAt, RecordAt
  <2> QED
    BY <2>1, <2>2, <2>3 DEF Kept
<1>2. ASSUME Kept, [Next]_vars PROVE Kept'
  <2>0. room = Nothing => job = Nothing
    BY <1>2 DEF Kept
  <2>1. CASE UNCHANGED vars
    BY <1>2, <2>0, <2>1, IdleKeeps DEF vars
  <2>2. CASE QueueChange
    BY <1>2, <2>0, <2>2, IdleKeeps DEF QueueChange
  <2>3. CASE MirrorChanges
    BY <1>2, <2>0, <2>3, IdleKeeps DEF MirrorChanges
  <2>4. CASE Refuse
    BY <1>2, <2>4, IdleKeeps DEF Refuse
  <2> QED
    BY <1>2, <2>1, <2>2, <2>3, <2>4, RegisterKeeps, StartKeeps, ApplyKeeps, OpenKeeps,
       EnterKeeps, TxKeeps, AcceptKeeps, LawsHold DEF Next
<1> QED
  BY <1>1, <1>2

\* ReadOnlyKept holds for every policy, template, body and bound: beside deposits,
\* only writable slots change, and only transactions change the registry
\* (from_v5, validate_post_state).
THEOREM ReadOnlyStays == Spec => []ReadOnlyKept
<1>1. ASSUME Kept PROVE ReadOnlyKept
  <2>1. /\ Unwritten /\ (room # Nothing => Opened) /\ (room = Nothing => job = Nothing)
        /\ job # Nothing /\ job.pc = "blocks" => InBlocks
    BY <1>1 DEF Kept
  <2>2. job # Nothing /\ job.pc = "blocks" => ParticipantsAt(job.snapshot) = room.participants
    BY <2>1 DEF InBlocks
  <2>3. room # Nothing => room.participants["capacity"] = ParticipantsAt(Genesis)["capacity"]
    BY <2>1 DEF Opened
  <2> QED
    BY <2>1, <2>2, <2>3 DEF ReadOnlyKept, Unwritten
<1> QED
  BY <1>1, KeptInductive, PTL DEF Spec

\* Led is inductive beside Kept.
LEMMA LedInductive ==
    /\ Init => Led
    /\ Kept /\ Led /\ [Next]_vars => Led'
<1>1. Init => Led
  <2> SUFFICES ASSUME Init PROVE Led
    OBVIOUS
  <2>1. queue = <<>> /\ room = Nothing /\ job = Nothing
    BY DEF Init
  <2>2. Queued(<<>>)
    <3>1. Len(<<>>) = 0 /\ DOMAIN <<>> = 1..0 /\ <<>> = [k \in 1..0 |-> <<>>[k]] /\ 0 \in Nat
      BY SMT
    <3>2. \A k \in 1..0 : FALSE
      BY SMT
    <3>3. Len(<<>>) \in Nat /\ ListOf(<<>>, Len(<<>>))
      BY <3>1 DEF ListOf
    <3>4. \A k \in DOMAIN <<>> : FALSE
      BY <3>1, <3>2
    <3> QED
      BY <3>3, <3>4 DEF Queued
  <2> QED
    BY <2>1, <2>2 DEF Led
<1>2. ASSUME Kept, Led, [Next]_vars PROVE Led'
  <2>1. CASE UNCHANGED vars
    BY <1>2, <2>1 DEF vars, Led
  <2>2. CASE MirrorChanges
    BY <1>2, <2>2 DEF MirrorChanges, Led
  <2>3. CASE Refuse
    BY <1>2, <2>3 DEF Refuse, Led
  <2> QED
    BY <1>2, <2>1, <2>2, <2>3, RegisterLed, QueueLed, StartLed, ApplyLed, OpenLed, EnterLed,
       TxLed, AcceptLed, LawsHold DEF Next
<1> QED
  BY <1>1, <1>2

\* GuestSeesTruth holds whatever preimages a prover presents, for every roster,
\* queue, template and body: a root opens to one state and to one roster, and what
\* runs was sent by the room's approvers (verify_compact_state_v4,
\* active_roster_map_v5, validate_transaction_entry).
THEOREM RootsOpenToTruth == Spec => []GuestSeesTruth
<1>1. ASSUME Kept, Led PROVE GuestSeesTruth
  <2> SUFFICES ASSUME job # Nothing
               PROVE  /\ job.pc = "blocks" => job.opened = truth
                      /\ room.mode = 0 => job.opening = roster
                      /\ job.pc = "blocks" /\ room.mode = 0 =>
                           \A tx \in job.ran : tx.from \in MembersOf(roster)
    BY DEF GuestSeesTruth
  <2>1. room # Nothing /\ (job.pc = "blocks" => job.opened = truth)
    BY <1>1 DEF Kept, InBlocks
  <2>2. room.mode = 0 => job.opening = roster /\ job.callers = MembersOf(roster)
    BY <1>1, <2>1 DEF Led, Seating
  <2>3. job.pc = "blocks" /\ room.mode = 0 => \A tx \in job.ran : tx.from \in job.callers
    BY <1>1 DEF Led, Bodied
  <2> QED
    BY <2>1, <2>2, <2>3
<1> QED
  BY <1>1, KeptInductive, LedInductive, PTL DEF Spec

\* RosterIsReplay holds for every queue and every way to cut it into batches: each
\* request behind the cursor took effect once and in order
\* (validate_roster_transition_v5).
THEOREM RequestsReplayed == Spec => []RosterIsReplay
<1>1. ASSUME Led PROVE RosterIsReplay
  <2> SUFFICES ASSUME room # Nothing, room.mode = 0
               PROVE  /\ roster = Replay(room.cursor)
                      /\ Unique(roster)
                      /\ \A i \in DOMAIN roster : roster[i].joined <= room.epoch
                      /\ \A k \in 1..room.cursor :
                           queue[k].action = "remove" => queue[k].commitment \in outbox
    BY DEF RosterIsReplay
  <2>1. Seated(room, roster, queue, outbox)
    BY <1>1 DEF Led
  <2>2. roster = ReplayOn(queue, room.cursor)
    BY <2>1 DEF Seated
  <2>3. roster = Replay(room.cursor)
    BY <2>2, ReplayIs
  <2> QED
    BY <2>1, <2>3 DEF Seated
<1> QED
  BY <1>1, KeptInductive, LedInductive, PTL DEF Spec

\* Reopens holds for every room: what a batch may leave, the next one can open
\* with any callers, and a unanimous room can be opened exactly as long as it has
\* an approver (validate_post_state, participant_state_v5, from_v5,
\* roster_root_v5).
THEOREM BatchesReopen == Spec => []Reopens
<1>1. ASSUME Kept, Led PROVE Reopens
  <2> DEFINE w == [a \in DOMAIN truth |-> Entry(truth[a], {})]
             opened == FromCompact(w)
  <2> SUFFICES ASSUME room # Nothing, room.batch > 0
               PROVE  /\ CompactOk(w)
                      /\ RoomStateRoot(opened, policy.commitment) = room.root
                      /\ ParticipantsOk(opened.accounts)
                      /\ ParticipantsAt(opened.accounts) = room.participants
                      /\ room.mode = 1 =>
                           \A body \in Bodies[policy] : Signers(body) # {} =>
                             FromV5(policy, policy, Signers(body), opened.accounts)
                      /\ room.mode = 0 =>
                           /\ \E capacity \in Capacities :
                                ActiveRosterOk(RosterList(roster), capacity, room.rosterRoot)
                           /\ FromV5(policy, policy, MembersOf(roster), opened.accounts)
                                <=> DOMAIN roster # {}
    BY DEF Reopens
  <2>1. Opened /\ AccountsOK(truth)
    BY <1>1 DEF Kept
  <2>2. /\ Certified(policy) /\ CodePinned(policy, truth) /\ StorageOk(policy, truth)
        /\ room.root = RootOf(truth, policy.commitment)
        /\ room.participants = ParticipantsAt(truth)
        /\ Fits(truth) /\ Solid(truth) /\ ParticipantsOk(truth)
    BY <2>1 DEF Opened
  <2>3. CompactOk(w) /\ opened.accounts = truth
    BY <2>1, <2>2, OwnWitness
  <2> HIDE DEF opened
  <2>4. RoomStateRoot(opened, policy.commitment) = room.root
    <3>1. policy.commitment \in {0, 1}
      BY <2>2, Layout DEF Certified
    <3>2. RoomStateRoot(opened, policy.commitment) = RootOf(opened.accounts, policy.commitment)
      BY <2>1, <2>3, <3>1, RootHashes
    <3> QED
      BY <2>2, <2>3, <3>2
  <2>5. \A callers : FromV5(policy, policy, callers, truth) <=> callers # {}
    BY <2>2 DEF FromV5, Certified
  <2>6. MembersOf(roster) # {} <=> DOMAIN roster # {}
    BY DEF MembersOf
  <2>7. ASSUME room.mode = 0
        PROVE  \E capacity \in Capacities :
                 ActiveRosterOk(RosterList(roster), capacity, room.rosterRoot)
    <3>1. Seated(room, roster, queue, outbox)
      BY <1>1, <2>7 DEF Led
    <3>2. IsRoster(roster) /\ Unique(roster)
      BY <3>1 DEF Seated
    <3>3. PICK c \in Capacities : Placed(roster, c) /\ room.rosterRoot = PositionalRoot(TreeOf(roster, c))
      BY <3>1 DEF Seated
    <3>4. RosterPreimage(RosterList(roster), c) /\ RosterRoot(RosterList(roster), c) = room.rosterRoot
      BY <3>2, <3>3, PreimagePlaced, LawsHold
    <3>5. RosterMap(RosterList(roster)) = roster
      BY <3>2, ListsRoster, ListedMap, LawsHold
    <3> QED
      BY <3>2, <3>4, <3>5 DEF ActiveRosterOk
  <2> HIDE DEF w
  <2> QED
    BY <2>2, <2>3, <2>4, <2>5, <2>6, <2>7
<1> QED
  BY <1>1, KeptInductive, LedInductive, PTL DEF Spec

=============================================================================
