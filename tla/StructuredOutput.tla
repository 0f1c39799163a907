--------------------------- MODULE StructuredOutput ---------------------------
(***************************************************************************)
(* StructuredOutputRuntime (agents/structured_output/runtime.py): how an   *)
(* answer of the model becomes a payload that fits a contract: parsed and  *)
(* validated, else repaired by asking the model again, else built by the   *)
(* contract's fallback builder.  A call of the model answers with text     *)
(* that fits the contract's schema, with text that does not, or raises.    *)
(*                                                                         *)
(* Pure operators on the record of one use of the runtime.  A contract is  *)
(* a record: whether repairs are enabled, how many there may be, and what  *)
(* the payload of its builder is: "none" if there is no builder, or if     *)
(* fallbacks are disabled, else whether it "fits" the schema.              *)
(***************************************************************************)
EXTENDS Naturals

Answers == {"fits", "misfits", "raises"}

(* stage is what comes next, attempts counts the repairs.                  *)
Fresh == [stage |-> "generate", attempts |-> 0, ok |-> FALSE,
          payload |-> "none", error |-> "none"]

Done(o, payload) == [o EXCEPT !.stage = "done", !.ok = payload # "none", !.payload = payload]

MayRepair(o, c) == c.repairEnabled /\ o.attempts < c.maxRepairAttempts

(* "Attempt fallback", and "All attempts failed" if there is none.         *)
Fallback(o, c) == Done(o, IF c.builder = "fits" THEN "builder" ELSE "none")

AfterError(o, c) == IF MayRepair(o, c) THEN [o EXCEPT !.stage = "repair"] ELSE Fallback(o, c)

(* generate: an exception of the first call ends it without a fallback.    *)
Generate(o, c, answer) ==
    IF answer = "raises" THEN [Done(o, "none") EXCEPT !.error = "LLM_CALL_FAILED"]
    ELSE IF answer = "fits" THEN Done(o, "model")
    ELSE AfterError([o EXCEPT !.error = "LLM_SCHEMA_INVALID"], c)

(* One attempt of the repair loop of parse_validate_repair.                *)
Repair(o, c, answer) ==
    LET p == [o EXCEPT !.attempts = @ + 1]
    IN  IF answer = "fits" THEN Done(p, "repaired")
        ELSE AfterError([p EXCEPT !.error = IF answer = "raises" THEN "LLM_REPAIR_FAILED"
                                            ELSE "LLM_REPAIR_SCHEMA_INVALID"], c)
=============================================================================
