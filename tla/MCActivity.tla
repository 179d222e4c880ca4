------------------------------- MODULE MCActivity -------------------------------
(***************************************************************************)
(* Errors as the packages make them: a tagged error class, one that is not *)
(* to be retried, plain data with a tag, an Error given a tag by hand, and *)
(* something without a tag.                                                *)
(***************************************************************************)
EXTENDS Activity

Make(tagged, error, json, final, schema) ==
  [tagged |-> tagged, error |-> error, json |-> json, final |-> final, schema |-> schema]

MCErrors ==
  {Make(TRUE, TRUE, TRUE, FALSE, "class"), Make(TRUE, TRUE, TRUE, TRUE, "class"),
   Make(TRUE, FALSE, FALSE, TRUE, "struct"), Make(TRUE, TRUE, FALSE, TRUE, "struct"),
   Make(FALSE, FALSE, FALSE, FALSE, "none")}
=============================================================================
