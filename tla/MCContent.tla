------------------------------- MODULE MCContent -------------------------------
(* The instance of Content for TLC: the first request of README.md, and one  *)
(* that names a template.                                                    *)
EXTENDS Content, TLC

MCRequests ==
  {[template |-> NoName, template_body |-> <<"Hi", "{{name}}">>,
    data |-> "{{name}}" :> "Siddharth"],
   [template |-> "welcome", template_body |-> << >>, data |-> NoData]}
MCTexts == {<<"Welcome">>, <<"Hello", "{{name}}">>}
===============================================================================
