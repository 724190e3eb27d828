---------------------------- MODULE MCJsonDecode ----------------------------
(* Instances of JsonDecode for TLC.                                         *)
EXTENDS JsonDecode

AllLexemes == {"open_array", "close_array", "open_object", "close_object", "comma", "colon",
               "null", "string", "number", "big", "bad", "bad_string",
               "true", "true_space", "false", "word"}
\* Without those that end like another: null and big like a number or a bad string,
\* false like true.
MostLexemes == AllLexemes \ {"null", "big", "false"}
=============================================================================
