---------------------------- MODULE MC_Converter ----------------------------
(***************************************************************************)
(* Small instance of Converter: up to two input paths, documents with at  *)
(* most two bindings, two-slot pools.                                      *)
(***************************************************************************)
EXTENDS Converter

(* Service ids standing for the FNV-1a hashes of the names; Radar and the *)
(* first placeholder share a static slot of a two-slot pool.              *)
MCServiceIdOf(n) ==
  CASE n = "BrakeControl"     -> 7
    [] n = "Radar"            -> 4
    [] n = "UnknownService_0" -> 2
    [] OTHER                  -> 1

MCBinding(ref, iid) == [ref |-> ref, iid |-> iid]

MCDoc(exists, wellformed, ns, bad, insts) ==
  [exists |-> exists, wellformed |-> wellformed, ns |-> ns, bad |-> bad,
   instances |-> insts]

(* A missing path, a document ElementTree rejects, one with an INSTANCE-ID *)
(* int(.., 0) rejects, and well-formed documents with and without a       *)
(* namespace.                                                              *)
MCDocument ==
  { MCDoc(FALSE, FALSE, FALSE, FALSE, << >>),
    MCDoc(TRUE, FALSE, FALSE, FALSE, << >>),
    MCDoc(TRUE, TRUE, FALSE, TRUE, <<MCBinding("Radar", Absent)>>),
    MCDoc(TRUE, TRUE, FALSE, FALSE, <<MCBinding("BrakeControl", Absent),
                                      MCBinding("", Absent)>>),
    MCDoc(TRUE, TRUE, FALSE, FALSE, <<MCBinding("Radar", 5)>>),
    MCDoc(TRUE, TRUE, TRUE, FALSE, <<MCBinding("Radar", Absent)>>) }

=============================================================================
