---------------------------- MODULE MCTokenizer ----------------------------
(***************************************************************************)
(* Instances of Tokenizer, with room for two labels: a name of two labels  *)
(* and names of three; an ADD whose value holds a blank, a DELETE short of *)
(* a parameter, a wrong token.                                             *)
(***************************************************************************)
EXTENDS Tokenizer

MCLongName == { <<"a", ".", "example", ".", "org">> }

MCNames == { <<"www", ".", "org">>, <<"a", ".", "b", ".", "c">> }

MCRequests ==
  { <<"secret", " ", "ADD", " ", "b", "\t", "MX", " ", "base", " ", "10", " ", "c.net", "\n">>,
    <<"secret", " ", "DELETE", " ", "b", " ", "A", "\n">>,
    <<"wrong", " ", "LIST", "\n">> }
=============================================================================
