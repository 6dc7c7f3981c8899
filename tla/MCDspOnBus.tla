----------------------------- MODULE MCDspOnBus -----------------------------
(* Requests and addresses of the DspOnBus runs. *)
EXTENDS DspOnBus

Adr(n) == [slave |-> "ram", word |-> n]

MCBoot == [op |-> "burst", adr |-> Adr(0), len |-> 2, flags |-> {"imem"}]

Singles == {[op |-> "read", adr |-> Adr(n)] : n \in {0, 1}} \cup {[op |-> "write", adr |-> Adr(1)]}

Bursts(lens, flags) == {[op |-> "burst", adr |-> Adr(0), len |-> n, flags |-> flags] : n \in lens}

(* Bursts of no word, of one, and of more than one back-off period, in both      *)
(* directions, and one the core does not wait for.                                 *)
AllRequests == Singles \cup Bursts({0, 1, 3}, {}) \cup Bursts({2}, {"write_ext"})
                       \cup Bursts({3}, {"nowait"})
=============================================================================
