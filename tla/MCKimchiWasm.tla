----------------------------- MODULE MCKimchiWasm -----------------------------
(* The instance of the wasm bindings that TLC checks.                       *)
EXTENDS KimchiWasm, TLC
=============================================================================
