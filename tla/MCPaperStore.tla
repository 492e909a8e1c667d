----------------------------- MODULE MCPaperStore -----------------------------
(* Instance of PaperStore for TLC: a paper that two sources know under     *)
(* different ids, one of them with blanks around its DOI, one with blanks  *)
(* around its title, one without a title and one without a URL.            *)
EXTENDS PaperStore, TLC

CONSTANTS d1, a1

Paper(t, d, a) == [title |-> t, padded |-> {}, doi |-> d, arxiv |-> a, http |-> TRUE]

onArxiv == Paper("t", NoId, a1)
onScholar == Paper("t", d1, NoId)
renamed == [Paper("u", d1, a1) EXCEPT !.padded = {"doi"}]
blank == [Paper("v", NoId, NoId) EXCEPT !.padded = {"title"}]
untitled == Paper("", NoId, NoId)
unlinked == [onArxiv EXCEPT !.http = FALSE, !.title = "w", !.arxiv = NoId]

MCResults ==
  { <<onArxiv, unlinked, onScholar, onArxiv>>, <<renamed, onScholar>>, <<blank, untitled, blank>> }

MCPatches ==
  { [columns |-> {"title"}, paper |-> untitled],
    [columns |-> {"doi", "arxiv"}, paper |-> renamed] }

ExecutionSymmetry == Permutations(Executions)
===============================================================================
