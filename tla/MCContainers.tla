---------------------------- MODULE MCContainers ----------------------------
(***************************************************************************)
(* Small instances of Containers.  One header has every field that a       *)
(* Reader gets through, one a string too long for it, one is refused.  The *)
(* library's compressor ("std") does nothing that HuffmanOnly without a    *)
(* Flush does not; zlib takes it for a dictionary.                         *)
(***************************************************************************)
EXTENDS Containers

Plainly == [extra |-> "none", name |-> "none", comment |-> "none", hcrc |-> "none"]
MCHeaders == {[Plainly EXCEPT !.comment = "ok", !.hcrc = "ok"],
              [Plainly EXCEPT !.name = "long"],
              [Plainly EXCEPT !.extra = "ok", !.comment = "refused"]}
=============================================================================
