------------------------------- MODULE MCBus -------------------------------
(***************************************************************************)
(* Bus with one-bit bytes, a memory of one line of two words, and CLINT    *)
(* above it at 8 .. 15.                                                     *)
(***************************************************************************)
EXTENDS Bus

Load(size, a)     == [NoUop EXCEPT !.is_load = TRUE, !.load_size = size, !.mem_addr = a]
Store(size, a, d) == [NoUop EXCEPT !.is_store = TRUE, !.store_size = size,
                                   !.mem_addr = a, !.store_data = d]

MCRam      == [a \in WordAddr |-> IF a < CLINT_BASE THEN (a + 6) % WordLimit ELSE 0]
MCMmioAddr == CLINT_BASE .. CLINT_END

MCUops ==
    {Load(1, 5), Store(1, 5, 2), Load(2, CLINT_BASE + MTIME_LO)}
=============================================================================
