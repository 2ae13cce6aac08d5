------------------------------ MODULE MCUrlPath ------------------------------
(***************************************************************************)
(* Every URL of up to five bytes out of % 0 2 5 7 F a z ? #, and three     *)
(* states of the memory behind it: clean, a wrong escape, two digits.      *)
(***************************************************************************)
EXTENDS UrlPath

CONSTANT UrlLength

MCUrls == UNION {[1 .. n -> {Percent, 48, 50, 53, 55, 70, 97, 122, Question, Hash}] : n \in 1 .. UrlLength}
MCStale == {<<0>>, <<Percent, 122, 122, 0>>, <<50, 53, 0>>}
=============================================================================
