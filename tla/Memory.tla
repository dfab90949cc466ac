------------------------------- MODULE Memory -------------------------------
(***************************************************************************)
(* The bytes of the linear memory, and the instructions that read and      *)
(* write them (memory.c, memory_opcode_handlers.h).  There are Words       *)
(* addresses, 2^32 in the code, and sums of them wrap around there; a byte *)
(* has Base values.                                                        *)
(***************************************************************************)
EXTENDS Numerals

CONSTANTS Words, Base, PageSize,
          Sizes,      \* of the memory, in pages
          Contents,   \* of a byte nobody has written: malloc leaves it as it is
          Widths,     \* of each type, those of its accesses, in bytes
          Addresses, Offsets, Values   \* what the instructions are given

Types == DOMAIN Widths

ASSUME MemoryAssumption ==
  /\ Words \in Nat \ {0} /\ Base \in Nat \ {0} /\ PageSize \in Nat
  /\ Sizes \subseteq Nat /\ Contents \subseteq 0..Base - 1
  /\ \A t \in Types : /\ Widths[t] \subseteq Nat
                     /\ \E n \in Widths[t] : \A m \in Widths[t] : m <= n
  /\ Values \subseteq Nat
  /\ Addresses \subseteq 0..Words - 1 /\ Offsets \subseteq 0..Words - 1

VARIABLES
  size,   \* memory->size
  data,   \* memory->data, by address
  last    \* the last instruction, what it was given and what became of it

vars == <<size, data, last>>

\* The bytes there are, and what memory->size * PAGE_SIZE makes of that in 32 bits.
Length   == size * PageSize
LengthInWord == Length % Words

\* What a load or a store names: the type on the stack, the bytes in memory, and
\* the sum of address and offset as it should be.
Full(type) == CHOOSE n \in Widths[type] : \A m \in Widths[type] : m <= n
Accesses   == {x \in [type : Types, width : UNION {Widths[t] : t \in Types}, signed : BOOLEAN,
                       at : {address + offset : address \in Addresses, offset \in Offsets}] :
                 x.width \in Widths[x.type] /\ (x.signed => x.width < Full(x.type))}

Done(kind, x, value, outcome) == [kind |-> kind, of |-> x, value |-> value, outcome |-> outcome]

\* calculate_address: the effective address, and whether it is refused.
Effective(at) == at % Words

\* Only the first byte is compared.
OutOfBoundsAtFirst(at, width) == Effective(at) >= LengthInWord

OutOfBounds(at, width) == (Effective(at) + width) % Words > LengthInWord

\* data + ea is computed in 64 bits.
Inside(at, width) == Effective(at) + width <= Length

----------------------------------------------------------------------------
(* Little-endian numbers of so many bytes *)

ByteOf(value, i)  == Digit(value, Base, i)
Number(at, width) == NumberOf([i \in 0..width - 1 |-> data[at + i]], Base, width)

\* The most significant byte first.
StoredSwapped(at, width, value) ==
  [x \in DOMAIN data |-> IF x \in at..at + width - 1 THEN ByteOf(value, width - 1 - (x - at)) ELSE data[x]]

\* One byte too many, as if the target type were the next wider one.
StoredWider(at, width, value) ==
  [x \in DOMAIN data |-> IF x \in at..at + width THEN ByteOf(value, x - at) ELSE data[x]]

Stored(at, width, value) ==
  [x \in DOMAIN data |-> IF x \in at..at + width - 1 THEN ByteOf(value, x - at) ELSE data[x]]

\* From the source type, signed or not, to the unsigned type that is pushed.
Widened(n, width, signed, full) ==
  IF signed /\ 2 * n >= Power(Base, width) THEN n - Power(Base, width) + Power(Base, full) ELSE n

----------------------------------------------------------------------------
(* Instructions *)

\* The exception leaves the memory as it is.
Trap == \E x \in Accesses, kind \in {"load", "store"} :
  /\ OutOfBounds(x.at, x.width)
  /\ last' = Done(kind, x, 0, "trap")
  /\ UNCHANGED <<size, data>>

Load == \E x \in Accesses :
  /\ ~OutOfBounds(x.at, x.width) /\ Inside(x.at, x.width)
  /\ last' = Done("load", x, Widened(Number(Effective(x.at), x.width), x.width, x.signed, Full(x.type)), "done")
  /\ UNCHANGED <<size, data>>

Store == \E x \in Accesses, value \in Values :
  /\ ~x.signed /\ value < Power(Base, Full(x.type))
  /\ ~OutOfBounds(x.at, x.width) /\ Inside(x.at, x.width)
  /\ data' = Stored(Effective(x.at), x.width, value)
  /\ last' = Done("store", x, value, "done")
  /\ UNCHANGED size

\* The check has passed and the pointer is behind the block: anything may follow.
Wild == \E x \in Accesses, kind \in {"load", "store"} :
  /\ ~OutOfBounds(x.at, x.width) /\ ~Inside(x.at, x.width)
  /\ last' = Done(kind, x, 0, "wild")
  /\ UNCHANGED <<size, data>>

MemorySize == /\ last' = [kind |-> "size", value |-> size, outcome |-> "done"]
              /\ UNCHANGED <<size, data>>

\* memory.grow is not implemented and says so.
MemoryGrow == /\ last' = [kind |-> "grow", outcome |-> "trap"]
              /\ UNCHANGED <<size, data>>

\* create_memory
Init == /\ size \in Sizes
        /\ data \in {[x \in 0..size * PageSize - 1 |-> c] : c \in Contents}
        /\ last = [kind |-> "none", outcome |-> "done"]

Running == last.outcome # "wild"

Next == Running /\ (Trap \/ Load \/ Store \/ Wild \/ MemorySize \/ MemoryGrow)

Spec == Init /\ [][Next]_vars

----------------------------------------------------------------------------
(* Properties *)

\* No sum wraps around, and the memory is smaller than the address space.
Small(x) == x.at + x.width < Words /\ Length < Words

\* An access is refused when a byte of it is outside of the memory, and only
\* then, up to the last byte; nothing outside is touched, unless a sum has
\* wrapped around (memory_opcode_handlers.h:14-21).
RefusedIffOutside ==
  last.kind \in {"load", "store"} =>
    /\ Small(last.of) => (last.outcome = "trap" <=> last.of.at + last.of.width > Length)
    /\ last.outcome = "wild" => ~Small(last.of)

\* What a store has put there a load brings back, as far as it is as wide, with
\* the sign it asks for, whatever the two types; also at addresses that have
\* wrapped around (memory_opcode_handlers.h:23-45).
StoreThenLoad ==
  [][last.kind = "store" /\ last'.kind = "load" /\ last.outcome = "done" /\ last'.outcome = "done"
     /\ last'.of.at = last.of.at /\ last'.of.width <= last.of.width
     => LET within == Power(Base, last'.of.width)
            n      == last.value % within
        IN  last'.value = IF last'.of.signed /\ 2 * n >= within
                          THEN Power(Base, Full(last'.of.type)) - (within - n) ELSE n]_vars

\* A store changes the bytes it names and no others: neither its neighbours when
\* the value is wider than the access, nor any byte when it is refused.
OthersUntouched ==
  [][\A b \in DOMAIN data : data'[b] # data[b] =>
       /\ last'.kind = "store" /\ last'.outcome = "done"
       /\ b \in Effective(last'.of.at)..Effective(last'.of.at) + last'.of.width - 1]_vars
=============================================================================
