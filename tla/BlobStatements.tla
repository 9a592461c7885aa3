--------------------------- MODULE BlobStatements ---------------------------
(***************************************************************************)
(* Statements about data in blobs and about several rooms at once          *)
(* (stf-types hosting.rs).                                                 *)
(*                                                                         *)
(* The arithmetic of evaluate_blob is translated over a small prime field  *)
(* and compared with the interpolating polynomial.  In the statements the  *)
(* value of a blob at a point derived from a transcript stands for the     *)
(* blob: that two blobs agree there by accident is out of scope.           *)
(***************************************************************************)
EXTENDS Integers, Sequences, FiniteSets, FiniteSetsExt

CONSTANTS
    Prime,          \* order of the scalar field
    Omega,          \* root of unity of order Fields
    Fields,         \* FIELD_ELEMENTS_PER_BLOB_V1, a power of two
    BytesPerField,  \* CANONICAL_BYTES_PER_FIELD_ELEMENT_V1
    ByteBase,       \* values of a byte
    MaxBlobs,       \* MAX_BLOBS_PER_BATCH_V1
    MaxMembers      \* MAX_AGGREGATE_ROOMS_V1

ASSUME FieldAssumption ==
    /\ Fields \in Nat \ {0} /\ BytesPerField \in Nat \ {0}
    /\ ByteBase^BytesPerField < Prime
    /\ Omega^Fields % Prime = 1
    /\ \A k \in 1..(Fields - 1) : Omega^k % Prime # 1

BytesPerBlob == Fields * BytesPerField

BlobCount(data) == (Len(data) + BytesPerBlob - 1) \div BytesPerBlob

\* The number that bytes from..to of data spell, the first byte leading.
Word(data, from, to) ==
    LET value[k \in (from - 1)..to] ==
          IF k < from THEN 0 ELSE ByteBase * value[k - 1] + data[k]
    IN value[to]

\* blob_field_values; fields past the end of the data are zero.
BlobFieldValues(data, blob) ==
    [f \in 0..(Fields - 1) |->
       LET start == blob * BytesPerBlob + f * BytesPerField
       IN IF start >= Len(data) THEN 0
          ELSE Word(data, start + 1, Min({start + BytesPerField, Len(data)}))]

\* canonical_blob_bytes_v1 for every blob.
CanonicalBlobs(data) == [b \in 1..BlobCount(data) |-> BlobFieldValues(data, b - 1)]

(***************************************************************************)
(* Evaluation.                                                             *)
(***************************************************************************)

Power(x, n) ==
    LET power[k \in 0..n] == IF k = 0 THEN 1 ELSE power[k - 1] * x % Prime IN power[n]

\* Scalar::invert
Inverted(x) == Power(x % Prime, Prime - 2)

\* index.reverse_bits() shifted to the width of Fields.
ReversedBits(index) ==
    LET width == CHOOSE w \in 0..Fields : 2^w = Fields
        digit(k) == (index \div 2^k) % 2
    IN SumSet({digit(k) * 2^(width - 1 - k) : k \in 0..(width - 1)})

\* Mutant: the fields of a blob are at the powers of the root in order.
Roots_natural == [f \in 0..(Fields - 1) |-> Power(Omega, f)]

\* The field at an index is the value at the root its reversed bits name.
Roots == [f \in 0..(Fields - 1) |-> Power(Omega, ReversedBits(f))]

\* evaluate_blob: one inversion for all denominators, which are divided out of
\* the product from the last to the first.
EvaluateBlob(values, z) ==
    LET last == Fields - 1
        denominator == [f \in 0..last |-> (z - Roots[f]) % Prime]
        prefix[f \in 0..Fields] ==
          IF f = 0 THEN 1 ELSE prefix[f - 1] * denominator[f - 1] % Prime
        inverse[f \in 0..Fields] ==
          IF f = Fields THEN Inverted(prefix[Fields])
          ELSE inverse[f + 1] * denominator[f] % Prime
        sum[f \in 0..Fields] ==
          IF f = Fields THEN 0
          ELSE (sum[f + 1] + values[f] * Roots[f] * inverse[f + 1] * prefix[f]) % Prime
    IN IF \E f \in 0..last : Roots[f] = z
       THEN values[CHOOSE f \in 0..last : Roots[f] = z]
       ELSE (Power(z, Fields) - 1) * Inverted(Fields) * sum[0] % Prime

\* c-kzg (external): the points of a blob are in bit-reversed order, which lists
\* the even exponents of half as many points before the odd ones.
CKzgRoots ==
    LET exponents[n \in 1..Fields] ==
          IF n = 1 THEN <<0>>
          ELSE LET half == exponents[n \div 2]
               IN [k \in 1..n |-> IF k <= n \div 2 THEN 2 * half[k]
                                  ELSE 2 * half[k - (n \div 2)] + 1]
    IN [f \in 0..(Fields - 1) |-> Power(Omega, exponents[Fields][f + 1])]

\* c-kzg (external): the value at z of the polynomial through the values.
CKzgEvaluation(values, z) ==
    LET last == Fields - 1
        product(x, f) ==
          LET upTo[g \in -1..last] ==
                IF g = -1 THEN 1
                ELSE IF g = f THEN upTo[g - 1] ELSE upTo[g - 1] * (x - CKzgRoots[g]) % Prime
          IN upTo[last]
        sum[f \in -1..last] ==
          IF f = -1 THEN 0
          ELSE (sum[f - 1] + values[f] * product(z, f) * Inverted(product(CKzgRoots[f], f)))
                 % Prime
    IN sum[last]

(***************************************************************************)
(* Data-availability statements.                                           *)
(***************************************************************************)

\* A commitment of a blob (external: KZG).
Commitment(values) == <<"kzg", values>>

\* The value of a blob at a point (external: evaluation at a random point).
Opening(values, point) == <<values, point>>

\* blob_equivalence_challenge_v1
Challenge(input, b) ==
    <<"challenge", input.room, input.journalHash, input.data, input.start, b,
      input.commitments[b]>>

\* data_availability_statement_v1
DataAvailabilityStatement(input) ==
    <<"availability", input.room, input.journalHash, input.data, Len(input.data),
      input.start, input.commitments, input.points, input.evaluations>>

\* Mutant: the evaluations are taken as supplied.
EquivalenceOk_unevaluated(input) ==
    /\ input.data # <<>>
    /\ Len(input.commitments) \in 1..MaxBlobs
    /\ input.start + Len(input.commitments) <= MaxBlobs
    /\ Len(input.commitments) = BlobCount(input.data)
    /\ Len(input.points) = Len(input.commitments)
    /\ Len(input.evaluations) = Len(input.commitments)
    /\ \A b \in DOMAIN input.commitments : input.points[b] = Challenge(input, b)

\* validate_blob_equivalence_v1 returns the statement.
EquivalenceOk(input) ==
    /\ input.data # <<>>
    /\ Len(input.commitments) \in 1..MaxBlobs
    /\ input.start + Len(input.commitments) <= MaxBlobs
    /\ Len(input.commitments) = BlobCount(input.data)
    /\ Len(input.points) = Len(input.commitments)
    /\ Len(input.evaluations) = Len(input.commitments)
    /\ \A b \in DOMAIN input.commitments :
         /\ input.points[b] = Challenge(input, b)
         /\ input.evaluations[b]
              = Opening(BlobFieldValues(input.data, b - 1), input.points[b])

(***************************************************************************)
(* Aggregates.  A member is [room, program, journalHash, equivalence,      *)
(* availability], the last two <<>> when its data is calldata.             *)
(***************************************************************************)

\* aggregate_statement_v1
AggregateStatement(members) == <<"aggregate", Len(members), members>>

\* validate_aggregate_v1 returns the statement.
AggregateOk(members) ==
    /\ Len(members) \in 1..MaxMembers
    /\ \A k \in DOMAIN members :
         /\ members[k].room # 0 /\ members[k].program # <<>>
         /\ members[k].equivalence = <<>> <=> members[k].availability = <<>>
         /\ \A j \in 1..(k - 1) : members[j].room # members[k].room

=============================================================================
