------------------------------ MODULE MCStartup ------------------------------
(***************************************************************************)
(* No database, the one of the first version, which had no templates and   *)
(* no titles, a later one with the old names, and one from before          *)
(* input_image_paths.  One seed file, which does not name the bundled      *)
(* template; one id for each base.                                         *)
(***************************************************************************)
EXTENDS StartupProperties

FirstSchema == {"prompt_text", "prompt_id"}
OldNames == {"prompt_text", "prompt_id", "task_title", "name", "content"}
SingleImage == Current \ {"input_image_paths"}

MCOldSchemas == {{}, FirstSchema, OldNames, SingleImage}
MCMaxSuffix == [base \in {"sample", "cat"} |-> 1]
MCSeeds == <<"cat">>
MCEnvironments ==
  [mode : {"normal"}, key : {"unset", "valid", "odd"}]
    \cup [mode : {"demo"}, key : {"unset", "odd"}]
    \cup [mode : {"unset"}, key : {"unset"}]
MCYaml == [mode |-> "odd", key |-> "unset"]

=============================================================================
