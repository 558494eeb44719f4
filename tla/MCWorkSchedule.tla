--------------------------- MODULE MCWorkSchedule --------------------------
(***************************************************************************)
(* Instances of WorkSchedule for TLC.                                      *)
(***************************************************************************)
EXTENDS WorkSchedule

Inference(prompt, new, kv, deadline, prio) ==
  [phase |-> "Prefill", prompt_tokens |-> prompt, prefilled_tokens |-> 0,
   generated_tokens |-> 0, max_new_tokens |-> new, kv_epoch |-> 1,
   kv_tokens |-> kv, deadline_ms |-> deadline, priority |-> prio]

\* Work without inference metadata, and a prompt of two chunks with a deadline.
MixedClaims == {NoMeta, Inference(2, 2, 1, 9, 1)}

\* Two inference claims that do not fit the token policy together, one of
\* them with an empty prompt.
TokenClaims == {Inference(0, 2, 0, 0, 0), Inference(1, 1, 1, 0, 1)}

\* The shortest work of either kind.
ShortClaims == {NoMeta, Inference(1, 1, 0, 0, 0)}
============================================================================
