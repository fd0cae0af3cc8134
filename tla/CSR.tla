-------------------------------- MODULE CSR --------------------------------
(***************************************************************************)
(* The control registers, npc/vsrc/CSR.sv, inside EXU.  The cycle counter   *)
(* counts modulo CycleLimit (2^32) in each of its two words.                *)
(***************************************************************************)
EXTENDS Nemu

CONSTANT CycleLimit

VARIABLES csr_addr, csr_wen, is_ecall, pc, csr_wdata   \* input wires

VARIABLES csr, mcycle, mcycleh

csrRegs == <<csr, mcycle, mcycleh>>

csr_rdata ==
    CASE csr_addr = "mcycle"    -> mcycle
      [] csr_addr = "mcycleh"   -> mcycleh
      [] csr_addr = "mvendorid" -> MVENDORID
      [] csr_addr = "marchid"   -> MARCHID
      [] csr_addr \in CsrNames  -> csr[csr_addr]
      [] OTHER -> 0

CsrInit ==
    /\ csr = [c \in CsrNames |-> 0]
    /\ mcycle = 0
    /\ mcycleh = 0

\* Faulty variant of CsrWrite: the cause of a trap is not recorded.
CsrWrite_no_cause ==
    csr' = CASE is_ecall -> [csr EXCEPT !["mepc"] = pc]
             [] ~is_ecall /\ csr_wen /\ csr_addr \in CsrNames ->
                  [csr EXCEPT ![csr_addr] = csr_wdata]
             [] OTHER -> csr

CsrWrite ==
    csr' = CASE is_ecall -> [csr EXCEPT !["mepc"] = pc, !["mcause"] = 11]
             [] ~is_ecall /\ csr_wen /\ csr_addr \in CsrNames ->
                  [csr EXCEPT ![csr_addr] = csr_wdata]
             [] OTHER -> csr

\* The increment is the last assignment of the block: a write to the counter
\* is lost.
CsrCount ==
    /\ mcycle' = (mcycle + 1) % CycleLimit
    /\ mcycleh' = IF mcycle = CycleLimit - 1 THEN (mcycleh + 1) % CycleLimit ELSE mcycleh

CsrClock == CsrWrite /\ CsrCount
=============================================================================
