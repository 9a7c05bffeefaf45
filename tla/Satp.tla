-------------------------------- MODULE Satp --------------------------------
(***************************************************************************)
(* The satp CSR of src/register/satp.rs: satp::set packs the mode, the    *)
(* ASID and the root page number into one word with BitField::set_bits,    *)
(* and the getters mode, asid and ppn unpack it; PageTableImpl::token of   *)
(* src/memory/paging.rs builds the same word by hand for an Sv39 root.     *)
(* The field boundaries are constants: XLEN (64), ASID_SHIFT (44) and      *)
(* MODE_SHIFT (60).  As in Sv39Address, each behaviour is one call, which  *)
(* returns or panics.                                                      *)
(***************************************************************************)
EXTENDS Integers, Bitwise

CONSTANTS
  XLEN, ASID_SHIFT, MODE_SHIFT,
  Calls   \* [op |-> "set", args |-> <<mode, asid, ppn>>] or
          \* [op |-> "token", args |-> <<root page number>>]

ASSUME 0 < ASID_SHIFT /\ ASID_SHIFT < MODE_SHIFT /\ MODE_SHIFT + 4 = XLEN

VARIABLES
  call,   \* the call being made
  out     \* Pending, or the word written to / read from satp, or Panic

vars == <<call, out>>

BF == INSTANCE BitField WITH BIT_LENGTH <- XLEN, SIGNED <- FALSE, Ranges <- {}, Values <- {},
                             Positions <- {}, word <- 0, outcome <- "ok"

Rg(a, b) == [start |-> [kind |-> "Included", value |-> a],
             end   |-> [kind |-> "Excluded", value |-> b]]

Pending == [panicked |-> FALSE, val |-> -1]
Panic == [panicked |-> TRUE, val |-> -1]
Ok(v) == [panicked |-> FALSE, val |-> v]

\* enum Mode: the discriminants of the paging modes.
Mode == [Bare |-> 0, Sv39 |-> 8, Sv48 |-> 9, Sv57 |-> 10, Sv64 |-> 11]
ModeValues == {Mode[m] : m \in DOMAIN Mode}

\* Satp::mode, asid, ppn.  mode() reaches unreachable!() for other values.
mode(bits) == BF!get_bits(bits, Rg(MODE_SHIFT, XLEN))
asid(bits) == BF!get_bits(bits, Rg(ASID_SHIFT, MODE_SHIFT))
ppn(bits) == BF!get_bits(bits, Rg(0, ASID_SHIFT))

\* Mutant of set: the ASID range written one bit too low.
setAsidLow(m, a, p) ==
  LET r1 == Rg(MODE_SHIFT, XLEN)
      r2 == Rg(ASID_SHIFT - 1, MODE_SHIFT - 1)
      r3 == Rg(0, ASID_SHIFT)
  IN  IF BF!Fits(r1, m) /\ BF!Fits(r2, a) /\ BF!Fits(r3, p)
      THEN Ok(BF!set_bits(BF!set_bits(BF!set_bits(0, r1, m), r2, a), r3, p))
      ELSE Panic

\* satp::set(mode, asid, ppn): three set_bits on 0, each asserting that its
\* value fits, then the write of the word.
set(m, a, p) ==
  LET r1 == Rg(MODE_SHIFT, XLEN)
      r2 == Rg(ASID_SHIFT, MODE_SHIFT)
      r3 == Rg(0, ASID_SHIFT)
  IN  IF BF!Fits(r1, m) /\ BF!Fits(r2, a) /\ BF!Fits(r3, p)
      THEN Ok(BF!set_bits(BF!set_bits(BF!set_bits(0, r1, m), r2, a), r3, p))
      ELSE Panic

\* Mutant of token: the mode shifted one bit short (8 << 59).
tokenShiftLow(rootppn) == Ok(rootppn | BF!Shl(Mode.Sv39, MODE_SHIFT - 1))

\* PageTableImpl::token: root_frame.number() | (8 << 60).
token(rootppn) == Ok(rootppn | BF!Shl(Mode.Sv39, MODE_SHIFT))

Return(result) ==
  /\ out = Pending
  /\ out' = result
  /\ UNCHANGED call

Set == call.op = "set" /\ Return(set(call.args[1], call.args[2], call.args[3]))

Token == call.op = "token" /\ Return(token(call.args[1]))

Init ==
  /\ call \in Calls
  /\ out = Pending

Next == Set \/ Token

Spec == Init /\ [][Next]_vars

---------------------------------------------------------------------------
(* Properties                                                              *)

Done(op) == call.op = op /\ out # Pending

(* Spec sections 6 and 7: satp::set with an ASID within 16 bits and a root  *)
(* page number within 44 bits writes a word whose mode, asid and ppn read  *)
(* back as given, and a field value too wide for its bits is fatal.        *)
SatpRoundTrip ==
  LET a == call.args
  IN  Done("set") =>
        IF a[2] < 2^(MODE_SHIFT - ASID_SHIFT) /\ a[3] < 2^ASID_SHIFT
        THEN ~out.panicked
             /\ <<mode(out.val), asid(out.val), ppn(out.val)>> = a
        ELSE out = Panic

(* The token PageTableImpl compares with satp and writes to it is the word *)
(* satp::set(Sv39, 0, root) would write, so activate reads it back as Sv39 *)
(* with ASID 0 and the root's page number.                                 *)
TokenIsSv39Root ==
  Done("token") /\ call.args[1] < 2^ASID_SHIFT =>
    out = set(Mode.Sv39, 0, call.args[1])
=============================================================================
