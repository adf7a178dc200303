------------------------------ MODULE MCBuilder ------------------------------
(* Builder on a small collection: a short document, a long one that fills a *)
(* chunk by itself, one with two terms, and one made of stop words only.    *)
EXTENDS Builder

CONSTANTS a, b

MCTerms == {a, b}

MCDocs == {[space |-> 1, terms |-> {a}],
           [space |-> 2, terms |-> {a, b}],
           [space |-> 1, terms |-> {}]}

=============================================================================
