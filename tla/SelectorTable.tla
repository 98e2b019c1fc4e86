---------------------------- MODULE SelectorTable ----------------------------
(***************************************************************************)
(* The selector section of a contract (codegen/module.py), the search for  *)
(* its tables (codegen/jumptable_utils.py), and what the emitted code does *)
(* with a message call.                                                    *)
(*                                                                         *)
(* There are three forms of the section.  The linear one compares method   *)
(* ids one after the other.  The sparse one takes the id modulo a number   *)
(* of buckets and searches one bucket.  The dense one does the same and    *)
(* finds the entry in the bucket with a perfect hash; what it knows of an  *)
(* entry is one packed word of the data section.  All of them have to send *)
(* every call to the same place.                                           *)
(*                                                                         *)
(* Widths are scaled: a byte has Byte values and a method id IdBytes of    *)
(* them; the magic numbers are below Magics (2**16 in the code) and the    *)
(* product is shifted right by Shift (2**24).                              *)
(***************************************************************************)
EXTENDS Integers, Sequences, FiniteSetsExt, SequencesExt

CONSTANTS
  Byte, IdBytes, Word, Magics, Shift,
  StartBucketSize,  \* START_BUCKET_SIZE
  Contracts,        \* sequences of external functions
  Calls             \* message calls

ASSUME WidthAssumption ==
  /\ {Byte, IdBytes, Word, Magics, Shift, StartBucketSize} \subseteq Nat \ {0}
  /\ Byte % 2 = 0 /\ Word % 2 = 0 /\ IdBytes % 2 = 0

Power[n \in Nat] == IF n = 0 THEN 1 ELSE Byte * Power[n - 1]     \* values of n bytes
MethodIds == 0 .. Power[IdBytes] - 1
LabelSpace == Power[2]               \* a code position takes two bytes

ASSUME ContractsAssumption ==
  Contracts \subseteq Seq([ids : Seq(MethodIds), args : Nat, payable : BOOLEAN])
ASSUME CallAssumption ==             \* bytes past the end of the calldata read as 0
  \A c \in Calls : /\ c.id \in MethodIds /\ c.size \in Nat /\ c.value \in Nat
                   /\ c.size < IdBytes => c.id % Power[IdBytes - c.size] = 0

VARIABLES
  functions,        \* the external functions, each with the method ids of its
                    \* entry points, one more than it has keyword arguments
  form,             \* "linear", "sparse" or "dense"
  phase,            \* "search", "serve", "answered" or "failed"
  n_buckets,        \* number of buckets being tried
  best,             \* `ret`: the best table so far, [n, buckets, magic]
  tried_exhaustive,
  answer            \* the call and where the section sends it

vars == <<functions, form, phase, n_buckets, best, tried_exhaustive, answer>>
table == <<functions, form, n_buckets, best, tried_exhaustive>>

NoTable == [n |-> 0]
NoAnswer == [to |-> <<"none">>]

---------------------------------------------------------------------------
(* Entry points: one for each number of keyword arguments in the calldata. *)

EntryPoints == UNION {{f} \X DOMAIN functions[f].ids : f \in DOMAIN functions}
IdOf(e) == functions[e[1]].ids[e[2]]
MinCalldatasize(e) == IdBytes + Word * (functions[e[1]].args + e[2] - 1)
Payable(e) == functions[e[1]].payable
SigOf(id) == CHOOSE e \in EntryPoints : IdOf(e) = id
Sigs == {IdOf(e) : e \in EntryPoints}

(* The order in which the entry points are generated. *)
method_ids == FlattenSeq([f \in DOMAIN functions |-> functions[f].ids])

---------------------------------------------------------------------------
(* jumptable_utils *)

(* _mk_buckets: the ids with the remainder b, in their order. *)
Bucket(n, b) ==
  LET filled[k \in 0 .. Len(method_ids)] ==
        IF k = 0 THEN <<>>
        ELSE IF method_ids[k] % n = b THEN Append(filled[k - 1], method_ids[k]) ELSE filled[k - 1]
  IN filled[Len(method_ids)]
EmptyBuckets(n) == \E b \in 0 .. n - 1 : Bucket(n, b) = <<>>
MaxBucketSize(n) == Max({Len(Bucket(n, b)) : b \in 0 .. n - 1})

Image(x, magic, size) == ((x * magic) \div Shift) % size
Perfect(xs, magic) ==
  \A i, j \in DOMAIN xs : i # j => Image(xs[i], magic, Len(xs)) # Image(xs[j], magic, Len(xs))
HasMagic(xs) == \E m \in 0 .. Magics - 1 : Perfect(xs, m)
FindMagic(xs) == CHOOSE m \in 0 .. Magics - 1 : Perfect(xs, m) /\ \A k \in 0 .. m - 1 : ~Perfect(xs, k)
ImageOrder(xs, magic) ==
  CHOOSE s \in [1 .. Len(xs) -> Range(xs)] :
    /\ Range(s) = Range(xs)
    /\ \A i, j \in 1 .. Len(xs) : i < j => Image(s[i], magic, Len(xs)) < Image(s[j], magic, Len(xs))

TooLarge(n) == \E b \in 0 .. n - 1 : Len(Bucket(n, b)) >= Byte   \* size.to_bytes(1, "big")

(* math.floor(n * 0.85) and math.ceil(n * 1.15), at least 1 *)
Lo(n) == Max({1, (n * 85) \div 100})
Hi(n) == Max({1, (n * 115 + 99) \div 100})

Smallest(n, candidates) == \A k \in candidates : n # k => (MaxBucketSize(n) < MaxBucketSize(k)
                                                  \/ (MaxBucketSize(n) = MaxBucketSize(k) /\ n < k))

DenseTable(n) ==
  [n |-> n,
   buckets |-> [b \in 0 .. n - 1 |-> ImageOrder(Bucket(n, b), FindMagic(Bucket(n, b)))],
   magic |-> [b \in 0 .. n - 1 |-> FindMagic(Bucket(n, b))]]
SparseTable(n) == [n |-> n, buckets |-> [b \in 0 .. n - 1 |-> Bucket(n, b)]]

---------------------------------------------------------------------------
(* The search, one number of buckets at a time. *)

Init ==
  /\ functions \in Contracts
  /\ \/ form = "linear"
     \/ form = "sparse"
     \/ form = "dense"                  \* --debug forces it on small contracts
  /\ n_buckets = Len(method_ids) \div StartBucketSize + 1
  /\ phase = IF form = "linear" \/ functions = <<>> THEN "serve" ELSE "search"
  /\ best = NoTable
  /\ tried_exhaustive = FALSE
  /\ answer = NoAnswer

ChooseSparse ==
  /\ phase = "search" /\ form = "sparse"
  /\ \E n \in Lo(Len(method_ids)) .. Hi(Len(method_ids)) :
        /\ Smallest(n, Lo(Len(method_ids)) .. Hi(Len(method_ids)))
        /\ best' = SparseTable(n)
  /\ phase' = "serve"
  /\ UNCHANGED <<functions, form, n_buckets, tried_exhaustive, answer>>

Searching == phase = "search" /\ form = "dense" /\ n_buckets > 0

(* _dense_jumptable_info succeeds: fewer buckets may do, too. *)
Improve ==
  /\ Searching
  /\ ~EmptyBuckets(n_buckets)
  /\ \A b \in 0 .. n_buckets - 1 : HasMagic(Bucket(n_buckets, b))
  /\ best' = DenseTable(n_buckets)
  /\ n_buckets' = n_buckets - 1
  /\ UNCHANGED <<functions, form, phase, tried_exhaustive, answer>>

HasEmptyBuckets ==
  /\ Searching
  /\ EmptyBuckets(n_buckets)
  /\ n_buckets' = n_buckets - 1
  /\ UNCHANGED <<functions, form, phase, best, tried_exhaustive, answer>>

FindMagicFailure ==
  /\ Searching
  /\ ~EmptyBuckets(n_buckets)
  /\ \E b \in 0 .. n_buckets - 1 : ~HasMagic(Bucket(n_buckets, b))
  /\ \/ /\ best # NoTable
        /\ n_buckets' = 0
        /\ UNCHANGED <<phase, tried_exhaustive>>
     \/ /\ best = NoTable /\ ~tried_exhaustive
        /\ n_buckets' = Len(method_ids)
        /\ tried_exhaustive' = TRUE
        /\ UNCHANGED phase
     \/ /\ best = NoTable /\ tried_exhaustive
        /\ phase' = "failed"
        /\ UNCHANGED <<n_buckets, tried_exhaustive>>
  /\ UNCHANGED <<functions, form, best, answer>>

(* The buckets lie one after the other; a header says where, how large and   *)
(* with which magic.                                                          *)
BucketSize(b) == Len(best.buckets[b])
EntriesBefore(b) == FlattenSeq([k \in 1 .. b |-> best.buckets[k - 1]])
Location(b) == Len(EntriesBefore(b))
Positions == {Location(b) : b \in 0 .. best.n - 1} \cup DOMAIN method_ids

(* The data section is written: a header for each bucket, then its entries;  *)
(* sizes and positions have to fit into their bytes.                          *)
Emit ==
  /\ phase = "search" /\ form = "dense" /\ n_buckets = 0
  /\ phase' = IF best = NoTable \/ TooLarge(best.n) \/ \E p \in Positions : p >= LabelSpace
              THEN "failed" ELSE "serve"
  /\ UNCHANGED <<table, answer>>

---------------------------------------------------------------------------
(* The emitted code. *)

Fallback == <<"fallback">>
Revert == <<"revert">>
Goto(e) == <<"function", e>>

LinearSection(c) ==
  IF c.size < IdBytes \/ c.id \notin Sigs THEN Fallback
  ELSE IF c.value > 0 /\ ~Payable(SigOf(c.id)) THEN Revert
  ELSE IF c.size < MinCalldatasize(SigOf(c.id)) THEN Revert
  ELSE Goto(SigOf(c.id))

MethodIdCheckShort(c, id) == c.id = id

(* Only ids that end with a zero byte are checked against a short calldata. *)
MethodIdCheck(c, id) == c.id = id /\ (id % Byte = 0 => c.size >= IdBytes)

SparseBucket(c) == Range(best.buckets[c.id % best.n])
SparseSection(c) ==
  LET hits == {id \in SparseBucket(c) : MethodIdCheck(c, id)} IN
    IF functions = <<>> \/ hits = {} THEN Fallback
    ELSE LET e == SigOf(CHOOSE id \in hits : TRUE) IN
      IF \/ c.value > 0 /\ ~Payable(e)
         \/ MinCalldatasize(e) # IdBytes /\ c.size < MinCalldatasize(e)
      THEN Revert ELSE Goto(e)

(* Bytes of the packed metadata: as few as the largest calldata size needs. *)
LargestMinCalldatasize == Max({MinCalldatasize(e) : e \in EntryPoints})
MetadataBytes == CHOOSE n \in 1 .. LargestMinCalldatasize :
                    /\ LargestMinCalldatasize < Power[n]
                    /\ n > 1 => LargestMinCalldatasize >= Power[n - 1]
MetadataSpace == Power[MetadataBytes]
Metadata(e) == MinCalldatasize(e) + (IF Payable(e) THEN 0 ELSE 1)     \* disjoint bits
LabelOf(e) == CHOOSE i \in 1 .. Len(method_ids) : method_ids[i] = IdOf(e)
Packed(id) == (id * LabelSpace + LabelOf(SigOf(id))) * MetadataSpace + Metadata(SigOf(id))

FunctionInfos == LET entries == EntriesBefore(best.n) IN [i \in DOMAIN entries |-> Packed(entries[i])]
Header(b) == (best.magic[b] * LabelSpace + Location(b)) * Byte + BucketSize(b)

DenseSection(c) ==
  IF functions = <<>> THEN Fallback
  ELSE
  LET hdr_info == Header(c.id % best.n)
      func_id == (((hdr_info \div (LabelSpace * Byte)) * c.id) \div Shift) % (hdr_info % Byte)
      func_info == FunctionInfos[((hdr_info \div Byte) % LabelSpace) + func_id + 1]
      is_nonpayable == func_info % 2
      expected_calldatasize == (func_info % MetadataSpace) - (func_info % 2)
      label == (func_info \div MetadataSpace) % LabelSpace
      function_method_id == func_info \div (MetadataSpace * LabelSpace)
  IN IF ~(c.size > IdBytes - 1 /\ function_method_id = c.id) THEN Fallback
     ELSE IF is_nonpayable * c.value > 0 \/ c.size < expected_calldatasize THEN Revert
     ELSE Goto(SigOf(method_ids[label]))

Receive(c) ==
  /\ phase = "serve"
  /\ answer' = [call |-> c,
                to |-> CASE form = "linear" -> LinearSection(c)
                         [] form = "sparse" -> SparseSection(c)
                         [] form = "dense" -> DenseSection(c)]
  /\ phase' = "answered"
  /\ UNCHANGED table

Next == ChooseSparse \/ Improve \/ HasEmptyBuckets \/ FindMagicFailure \/ Emit
        \/ \E c \in Calls : Receive(c)
Spec == Init /\ [][Next]_vars

---------------------------------------------------------------------------
(* What a call is entitled to, whatever the table looks like. *)
Declared(c) ==
  LET e == SigOf(c.id) IN
    CASE c.size < IdBytes \/ c.id \notin Sigs -> Fallback
      [] OTHER -> IF c.size >= MinCalldatasize(e) /\ (Payable(e) \/ c.value = 0) THEN Goto(e) ELSE Revert

(* Whatever form the section takes and whichever table the search settled on, *)
(* a call reaches the entry point of its method id if its calldata is long    *)
(* enough and its value allowed, is reverted if they are not, and reaches the *)
(* fallback if no method id was sent or it is unknown; also a calldata that   *)
(* is shorter than a method id and reads as one, padded with zeros.           *)
RoutedAsDeclared == phase = "answered" => answer.to = Declared(answer.call)
=============================================================================
