--------------------------- MODULE MCMigrateToOss ---------------------------
(***************************************************************************)
(* Two rows with absolute and static paths of old releases and an input    *)
(* that the first row names three times, in two places; one of the files   *)
(* may be missing.                                                         *)
(***************************************************************************)
EXTENDS MigrateToOssProperties, TLC
CONSTANTS p1, p2, u

P(form, name) == [form |-> form, name |-> name]

MCRows ==
  << <<P("outside", p1), P("static", u), P("static", u), P("outside", u)>>,
     <<P("inside", p2), P("key", u)>> >>
MCFiles == {P("outside", p1), P("key", u), P("outside", u), P("key", p2)}
MCTable ==
  {[cells |-> MCRows, disk |-> MCFiles \ missing] :
     missing \in {{}, {P("outside", p1)}, {P("key", u)}}}
=============================================================================
