------------------------------ MODULE Options ------------------------------
(***************************************************************************)
(* What an option in a text file reads as.  A file is a function from its  *)
(* keys to what stands there: nothing, a number or a word.  How that gets  *)
(* onto the card and back is IniFile's.                                    *)
(***************************************************************************)
EXTENDS Integers

Absent == [is |-> "absent"]
Number(n) == [is |-> "number", n |-> n]
Word(w) == [is |-> "word", w |-> w]
Bool(b) == Word(IF b THEN "true" ELSE "false")

\* ini_get_string(), ini_get_int() and ini_get_bool(): what is not there, or
\* is not of that kind, is what the caller asks for.
GetWord(file, key, default) == IF file[key].is = "word" THEN file[key].w ELSE default
GetInt(file, key, default) == IF file[key].is = "number" THEN file[key].n ELSE default
GetBool(file, key, default) ==
    LET v == file[key]
        yes == IF v.is = "word" THEN v.w \in {"true", "yes", "on"} ELSE v.is = "number" /\ v.n = 1
        no == IF v.is = "word" THEN v.w \in {"false", "no", "off"} ELSE v.is = "number" /\ v.n = 0
    IN  IF yes THEN TRUE ELSE IF no THEN FALSE ELSE default

NoOptions(keys) == [k \in keys |-> Absent]
=============================================================================
