------------------------------ MODULE MCScrapi ------------------------------
(* Small instances of Scrapi for TLC. *)
EXTENDS Scrapi, TLC

CONSTANTS s1, s2, c1, c2

(* The first client shares no bucket with the second: it has a key, the     *)
(* other has none.                                                          *)
Callers == (c1 :> "good") @@ (c2 :> "none")

(* Two statements of this package, one of them as untagged pre-0.5 bytes,   *)
(* and one that names no issuer.                                            *)
Posted == {[statement |-> SignStatement("p"), shape |-> "cose"],
           [statement |-> [SignStatement("q") EXCEPT !.form = "untagged"], shape |-> "cose"],
           [statement |-> [SignStatement("p") EXCEPT !.declares = {"alg", "kid"}], shape |-> "cose"]}

(* A development server; a production deployment with one writer; and two   *)
(* that demand an API key: one with a fresh signing key per process, and    *)
(* one that was started without the API key it demands.                     *)
Deployments ==
    {[replicas |-> {s1}, production |-> FALSE, writers |-> {}, pinned |-> TRUE, auth |-> "off"],
     [replicas |-> {s1, s2}, production |-> TRUE, writers |-> {s1}, pinned |-> TRUE, auth |-> "set"],
     [replicas |-> {s1}, production |-> FALSE, writers |-> {}, pinned |-> FALSE, auth |-> "set"],
     [replicas |-> {s1}, production |-> FALSE, writers |-> {}, pinned |-> FALSE, auth |-> "missing"]}
=============================================================================
