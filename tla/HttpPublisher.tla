--------------------------- MODULE HttpPublisher ---------------------------
(***************************************************************************)
(* HttpPublisher::publish in task_result_publisher.h: the text it posts.   *)
(* A text is a sequence of the characters JSON gives a meaning to and of   *)
(* "word" for what is between them.                                        *)
(***************************************************************************)
EXTENDS Naturals, Sequences, SequencesExt

Word == <<"word">>
Quoted(text) == <<"quote">> \o text \o <<"quote">>

\* The messages tasks publish are dumps of objects.
Dumped == <<"{">> \o Quoted(Word) \o <<":">> \o Quoted(Word) \o <<"}">>

publish(topic, message) ==
    <<"{">> \o Quoted(Word) \o <<":">> \o Quoted(topic) \o <<",">>
            \o Quoted(Word) \o <<":">> \o Quoted(message) \o <<"}">>

\* A parser of objects of strings: what it is in after the next character.
After(state, char) ==
    CASE state = "text"   /\ char = "{"                  -> "object"
      [] state = "object" /\ char = "quote"              -> "key"
      [] state = "key"    /\ char # "quote"              -> "key"
      [] state = "key"    /\ char = "quote"              -> "colon"
      [] state = "colon"  /\ char = ":"                  -> "value"
      [] state = "value"  /\ char = "quote"              -> "string"
      [] state = "string" /\ char # "quote"              -> "string"
      [] state = "string" /\ char = "quote"              -> "member"
      [] state = "member" /\ char = ","                  -> "object"
      [] state = "member" /\ char = "}"                  -> "end"
      [] OTHER                                           -> "error"

IsJson(text) == FoldLeft(After, "text", text) = "end"
=============================================================================
