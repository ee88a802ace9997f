-------------------------------- MODULE Fnv --------------------------------
(***************************************************************************)
(* ServiceDefinition.compute_service_id() of                              *)
(* src/tools/arxml2yaml/arxml2yaml.py: 32-bit FNV-1a over the UTF-8     *)
(* bytes of the service name, one XOR-then-multiply step per byte, the   *)
(* product masked to 32 bits.                                             *)
(*                                                                         *)
(* TLC computes with 32-bit signed integers, so a 32-bit word is kept as  *)
(* its two 16-bit halves and the multiplication by FNV_PRIME =            *)
(* 0x01000193 = 2^24 + 403 is done on the halves.  The reference          *)
(* definition at the end computes the same hash on four 8-bit limbs by    *)
(* schoolbook multiplication; the two are checked against each other for *)
(* every short byte string, and MC_Fnv checks the published vectors.     *)
(***************************************************************************)
EXTENDS Naturals, Sequences, Bitwise

CONSTANTS
  Alphabet,   \* the byte values names are drawn from
  MaxLen      \* bound on the length of a name in bytes (model bound)

ASSUME FnvAssumption == Alphabet \subseteq 0 .. 255 /\ MaxLen \in Nat

Half == 65536

(* A 32-bit word: hash_value = hi * 2^16 + lo. *)
Word == [hi : 0 .. Half - 1, lo : 0 .. Half - 1]

(* FNV_OFFSET = 0x811c9dc5 *)
FNV_OFFSET == [hi |-> 33052, lo |-> 40389]

(* hash_value ^= byte: a byte only reaches the low 8 bits. *)
XorByte(h, b) == [h EXCEPT !.lo = @ ^^ b]

(* Mutation variant: the product is not masked to 32 bits. *)
MulPrimeUnmasked(h) ==
  LET low == h.lo * 403 IN
  [hi |-> h.hi * 403 + low \div Half + (h.lo % 256) * 256,
   lo |-> low % Half]

(* hash_value = (hash_value * FNV_PRIME) & 0xFFFFFFFF.  The 2^24 part     *)
(* moves the low byte of lo to the top byte of hi; the 403 part is        *)
(* multiplied half by half with the carry out of lo added to hi.          *)
MulPrime(h) ==
  LET low == h.lo * 403 IN
  [hi |-> (h.hi * 403 + low \div Half + (h.lo % 256) * 256) % Half,
   lo |-> low % Half]

(* Mutation variant: FNV-1 order, multiply before XOR. *)
FnvStepMulFirst(h, b) == XorByte(MulPrime(h), b)

(* One iteration of the loop over the name's bytes. *)
FnvStep(h, b) == MulPrime(XorByte(h, b))

Zero == [hi |-> 0, lo |-> 0]

Names == UNION {[1 .. n -> Alphabet] : n \in 0 .. MaxLen}

VARIABLES
  name,         \* the bytes of service_name.encode('utf-8')
  pos,          \* index of the next byte (1-based)
  hash_value,   \* the loop's accumulator
  service_id    \* self.service_id: the word 0 until computed, then the hash

vars == <<name, pos, hash_value, service_id>>

(* A fresh ServiceDefinition (service_id = 0) whose name was just set by  *)
(* _combine_definitions(), which then calls compute_service_id(); the   *)
(* early return for service_id > 0 is never taken from there.             *)
Init ==
  /\ name \in Names
  /\ pos = 1
  /\ hash_value = FNV_OFFSET
  /\ service_id = Zero

HashByte ==
  /\ pos <= Len(name)
  /\ hash_value' = FnvStep(hash_value, name[pos])
  /\ pos' = pos + 1
  /\ UNCHANGED <<name, service_id>>

(* self.service_id = hash_value, kept as its halves. *)
StoreId ==
  /\ pos = Len(name) + 1
  /\ service_id = Zero
  /\ service_id' = hash_value
  /\ UNCHANGED <<name, pos, hash_value>>

Next == HashByte \/ StoreId

Spec == Init /\ [][Next]_vars

(* The whole loop as a function of the bytes. *)
FnvHash(s) ==
  LET h[n \in 0 .. Len(s)] == IF n = 0 THEN FNV_OFFSET ELSE FnvStep(h[n - 1], s[n])
  IN h[Len(s)]

-----------------------------------------------------------------------------
(* The reference: a word as four bytes, least significant first, and     *)
(* FNV-1a by schoolbook multiplication with the bytes of 0x01000193.      *)
PrimeLimbs == <<147, 1, 0, 1>>
OffsetLimbs == <<197, 157, 28, 129>>

RefMul(a) ==
  LET col(n) == LET terms == [i \in 1 .. n |-> a[i] * PrimeLimbs[n + 1 - i]]
                    s[j \in 0 .. n] == IF j = 0 THEN 0 ELSE s[j - 1] + terms[j]
                IN s[n]
      acc[n \in 1 .. 4] == col(n) + (IF n = 1 THEN 0 ELSE acc[n - 1] \div 256)
  IN [n \in 1 .. 4 |-> acc[n] % 256]

RefHash(s) ==
  LET r[n \in 0 .. Len(s)] ==
        IF n = 0 THEN OffsetLimbs
        ELSE RefMul([r[n - 1] EXCEPT ![1] = @ ^^ s[n]])
  IN r[Len(s)]

Limbs(h) == <<h.lo % 256, h.lo \div 256, h.hi % 256, h.hi \div 256>>

TypeOK ==
  /\ name \in Names
  /\ pos \in 1 .. Len(name) + 1
  /\ hash_value \in Word
  /\ service_id \in Word

(* compute_service_id() computes 32-bit FNV-1a (XOR the byte in, then    *)
(* multiply and mask, from the published offset basis): after every       *)
(* iteration of its loop the accumulator is the reference hash of the     *)
(* prefix read so far, and the stored id is the hash of the whole name.  *)
(* The reference is written independently, on byte limbs.                *)
FnvMatchesReference ==
  /\ Limbs(hash_value) = RefHash(SubSeq(name, 1, pos - 1))
  /\ service_id # Zero => Limbs(service_id) = RefHash(name)

=============================================================================
