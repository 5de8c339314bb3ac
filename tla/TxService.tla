----------------------------- MODULE TxService -----------------------------
(***************************************************************************)
(* What one transmit channel of the packet driver promises its callers,    *)
(* whatever the ring, the interrupts and the tasks behind it do.           *)
(*                                                                         *)
(* A packet (the first software GPD of a chain) that is accepted belongs   *)
(* to the driver until its callback has run; the callback runs once; and   *)
(* callbacks run in the order of acceptance, unless the channel is         *)
(* recovered from a hardware error, which may reorder what is outstanding  *)
(* but loses nothing.                                                      *)
(***************************************************************************)
EXTENDS Sequences, Functions

CONSTANT Packets     \* the software GPD chains callers may submit

VARIABLES
    owed,            \* accepted packets whose callback has not run, oldest first
    broken           \* a hardware error is known and not yet recovered from

svars == << owed, broken >>

ServiceInit == owed = << >> /\ broken = FALSE

(* hal_lightning_pkt_sendGpd answers CLX_E_OK.                             *)
Accept(p) ==
    /\ ~broken
    /\ p \notin Range(owed)
    /\ owed' = Append(owed, p)
    /\ UNCHANGED broken

(* The callback of the oldest packet runs.                                 *)
Return ==
    /\ owed # << >>
    /\ owed' = Tail(owed)
    /\ UNCHANGED broken

(* The error task reports an error, perhaps one already known.             *)
Break ==
    /\ broken' = TRUE
    /\ UNCHANGED owed

(* Recovery gathers what is owed, in whatever order ...                    *)
Rearrange ==
    /\ broken
    /\ owed' \in Seq(Packets)
    /\ Len(owed') = Len(owed) /\ Range(owed') = Range(owed)
    /\ UNCHANGED broken

(* ... and reopens the channel.                                            *)
Repair ==
    /\ broken /\ broken' = FALSE
    /\ UNCHANGED owed

ServiceNext ==
    \/ \E p \in Packets : Accept(p)
    \/ Return \/ Break \/ Rearrange \/ Repair

ServiceSpec == ServiceInit /\ [][ServiceNext]_svars
=============================================================================
