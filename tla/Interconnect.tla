---------------------------- MODULE Interconnect ----------------------------
(***************************************************************************)
(* The two blocks of routing between the core's masters and the slaves in  *)
(* the ARCH_YSYXSOC configuration: Arbiter.sv chooses between the fetch    *)
(* side (axi_ifu, driven by ICACHE) and LSU; SoCXbar.sv chooses between    *)
(* the SoC port and CLINT.  Apart from four registers they are wires: an   *)
(* operator below is an interface signal, named after it.                   *)
(***************************************************************************)
EXTENDS Params

CONSTANTS CLINT_BASE, CLINT_END

VARIABLES  \* input wires
    ifu_arvalid, ifu_araddr, ifu_arlen, ifu_rready,
    lsu_arvalid, lsu_araddr, lsu_rready,
    lsu_awvalid, lsu_awaddr, lsu_wvalid, lsu_wdata, lsu_wstrb, lsu_bready,
    soc_arready, soc_rvalid, soc_rdata, soc_rlast,
    soc_awready, soc_wready, soc_bvalid,
    clint_arready, clint_rvalid, clint_rdata

VARIABLES read_grant, read_owner, write_owner, read_slave

regs == <<read_grant, read_owner, write_owner, read_slave>>

-----------------------------------------------------------------------------
(* The read address channel, from the masters to the slaves and back.      *)

arb_arvalid == CASE read_grant = "LSU" -> lsu_arvalid
                 [] read_grant = "IFU" -> ifu_arvalid
                 [] OTHER -> FALSE
arb_araddr  == CASE read_grant = "LSU" -> lsu_araddr
                 [] read_grant = "IFU" -> ifu_araddr
                 [] OTHER -> 0

\* Faulty variant of arb_arlen: the burst length is not passed on.
arb_arlen_zero == 0

arb_arlen   == IF read_grant = "IFU" THEN ifu_arlen ELSE 0

to_clint == CLINT_BASE <= arb_araddr /\ arb_araddr < CLINT_END

clint_arvalid == to_clint /\ arb_arvalid
clint_araddr  == IF to_clint THEN arb_araddr - CLINT_BASE ELSE 0
soc_arvalid   == ~to_clint /\ arb_arvalid
soc_araddr    == IF to_clint THEN 0 ELSE arb_araddr
soc_arlen     == IF to_clint THEN 0 ELSE arb_arlen

arb_arready == IF to_clint THEN clint_arready ELSE soc_arready
ifu_arready == read_grant = "IFU" /\ arb_arready
lsu_arready == read_grant = "LSU" /\ arb_arready

arb_ar_fire == arb_arvalid /\ arb_arready

-----------------------------------------------------------------------------
(* The read data channel, from the slaves to the masters and back.         *)

arb_rvalid == CASE read_slave = "SLAVE_CLINT" -> clint_rvalid
                [] read_slave = "SLAVE_SOC" -> soc_rvalid
                [] OTHER -> FALSE
arb_rdata  == CASE read_slave = "SLAVE_CLINT" -> clint_rdata
                [] read_slave = "SLAVE_SOC" -> soc_rdata
                [] OTHER -> 0
arb_rlast  == read_slave = "SLAVE_SOC" /\ soc_rlast

ifu_rvalid == read_owner = "IFU" /\ arb_rvalid
ifu_rdata  == IF read_owner = "IFU" THEN arb_rdata ELSE 0
ifu_rlast  == read_owner = "IFU" /\ arb_rlast
lsu_rvalid == read_owner = "LSU" /\ arb_rvalid
lsu_rdata  == IF read_owner = "LSU" THEN arb_rdata ELSE 0

arb_rready == CASE read_owner = "LSU" -> lsu_rready
                [] read_owner = "IFU" -> ifu_rready
                [] OTHER -> FALSE
clint_rready == read_slave = "SLAVE_CLINT" /\ arb_rready
soc_rready   == read_slave # "SLAVE_CLINT" /\ arb_rready

arb_r_fire == arb_rvalid /\ arb_rready

-----------------------------------------------------------------------------
(* The write channels: only LSU writes, only the SoC port is written.      *)

lsu_writes == lsu_awvalid \/ write_owner = "LSU"

soc_awvalid == lsu_writes /\ lsu_awvalid
soc_awaddr  == IF lsu_writes THEN lsu_awaddr ELSE 0
soc_wvalid  == lsu_writes /\ lsu_wvalid
soc_wdata   == IF lsu_writes THEN lsu_wdata ELSE 0
soc_wstrb   == IF lsu_writes THEN lsu_wstrb ELSE {}
soc_bready  == lsu_writes /\ lsu_bready

lsu_awready == lsu_writes /\ soc_awready
lsu_wready  == lsu_writes /\ soc_wready
lsu_bvalid  == lsu_writes /\ soc_bvalid

-----------------------------------------------------------------------------
Init ==
    /\ read_grant = "IDLE"
    /\ read_owner = "IDLE"
    /\ write_owner = "IDLE"
    /\ read_slave = "SLAVE_IDLE"

\* Faulty variant of ReadGrant: LSU takes the grant back from the fetch side.
ReadGrant_preempt ==
    LET choosing == read_grant = "IDLE" /\ read_owner = "IDLE"
    IN read_grant' =
        CASE arb_ar_fire                                               -> "IDLE"
          [] ~arb_ar_fire /\ (choosing \/ read_grant = "IFU") /\ lsu_arvalid -> "LSU"
          [] choosing /\ ~arb_ar_fire /\ ~lsu_arvalid /\ ifu_arvalid   -> "IFU"
          [] OTHER -> read_grant

\* Faulty variant of ReadGrant: LSU keeps the grant.
ReadGrant_keep ==
    LET choosing == read_grant = "IDLE" /\ read_owner = "IDLE"
    IN read_grant' =
        CASE choosing /\ lsu_arvalid                  -> "LSU"
          [] choosing /\ ~lsu_arvalid /\ ifu_arvalid  -> "IFU"
          [] read_grant = "IFU" /\ arb_ar_fire        -> "IDLE"
          [] OTHER -> read_grant

\* Who may place the next read: chosen when no read is in progress, LSU first,
\* and kept until that read is accepted.
ReadGrant ==
    LET choosing == read_grant = "IDLE" /\ read_owner = "IDLE"
    IN read_grant' =
        CASE choosing /\ lsu_arvalid                  -> "LSU"
          [] choosing /\ ~lsu_arvalid /\ ifu_arvalid  -> "IFU"
          [] ~choosing /\ arb_ar_fire                 -> "IDLE"
          [] OTHER -> read_grant

\* Faulty variant of ReadOwner: every beat ends the fetch side's burst.
ReadOwner_any_beat ==
    read_owner' =
        CASE arb_ar_fire /\ read_owner = "IDLE"  -> read_grant
          [] ~arb_ar_fire /\ arb_r_fire          -> "IDLE"
          [] OTHER -> read_owner

\* Whose read is in progress: LSU's is one word, ICACHE's ends with rlast.
ReadOwner ==
    read_owner' =
        CASE arb_ar_fire /\ read_owner = "IDLE"                          -> read_grant
          [] ~arb_ar_fire /\ arb_r_fire /\ read_owner = "LSU"               -> "IDLE"
          [] ~arb_ar_fire /\ arb_r_fire /\ read_owner = "IFU" /\ arb_rlast  -> "IDLE"
          [] OTHER -> read_owner

WriteOwner ==
    write_owner' =
        CASE soc_awvalid /\ soc_awready                    -> "LSU"
          [] ~(soc_awvalid /\ soc_awready) /\ soc_bvalid /\ soc_bready -> "IDLE"
          [] OTHER -> write_owner

\* Which slave answers.
ReadSlave ==
    read_slave' =
        CASE arb_ar_fire -> IF to_clint THEN "SLAVE_CLINT" ELSE "SLAVE_SOC"
          [] ~arb_ar_fire /\ arb_r_fire /\ read_slave = "SLAVE_SOC" /\ arb_rlast -> "SLAVE_IDLE"
          [] ~arb_ar_fire /\ arb_r_fire /\ read_slave = "SLAVE_CLINT"            -> "SLAVE_IDLE"
          [] OTHER -> read_slave

Clock == ReadGrant /\ ReadOwner /\ WriteOwner /\ ReadSlave
=============================================================================
