------------------------ MODULE MCJsonArrayUnwrapper ------------------------
(***************************************************************************)
(* TLC instances of JsonArrayUnwrapper: elements with nested arrays and    *)
(* objects, commas inside and outside, and an element without brackets.    *)
(***************************************************************************)
EXTENDS JsonArrayUnwrapper

Flat == <<"lbrace", "x", "comma", "x", "rbrace">>
Nested == <<"lbrace", "lbracket", "x", "comma", "x", "rbracket", "comma", "x", "rbrace">>
Number == <<"x">>

MCElements == {Flat, Nested, Number}
MCOutside == {<<>>, <<"x">>}
=============================================================================
