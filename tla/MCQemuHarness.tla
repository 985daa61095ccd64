--------------------------- MODULE MCQemuHarness ---------------------------
(* Instances of the boot tests for TLC: the matrix of three cases and the  *)
(* Darwin installer's five stages.                                         *)
EXTENDS QemuProperties

Required(terms, found) ==
  [terms |-> terms, found |-> found, missed |-> "failed", keys |-> FALSE, dump |-> FALSE]

Prompt == {"boot"}
UFSPrompt == {"boot", "ufs"}

MCMatrix ==
  <<<<Required(Prompt, "passed")>>,
    <<Required(UFSPrompt, "passed")>>,
    <<[Required(UFSPrompt, "next") EXCEPT !.keys = TRUE],
      [Required({"mach", "panic"}, "passed") EXCEPT !.dump = TRUE]>>>>

MCDarwin ==
  <<<<[Required(Prompt, "next") EXCEPT !.keys = TRUE],
      Required({"mach"}, "next"),
      Required({"rootdev"}, "next"),
      [Required({"mach", "panic"}, "passed") EXCEPT !.missed = "next"],
      [Required({"singleuser"}, "passed") EXCEPT !.missed = "passed"]>>>>

MCSuites == {[cases |-> MCMatrix, aggregate |-> TRUE], [cases |-> MCDarwin, aggregate |-> FALSE]}

MCScreens == {Prompt, UFSPrompt, {"mach"}, {"mach", "rootdev"}, {"mach", "panic"}, {"singleuser"}}
=============================================================================
