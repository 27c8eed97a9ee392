--------------------------- MODULE MCDocumentIndex ---------------------------
(* DocumentIndex on the instance of MCDocumentIndex.cfg: a file without text, *)
(* one of a single chunk, one whose page has two chunks, and one whose second *)
(* page comes after a blank one.                                              *)
EXTENDS DocumentIndex

TheDocuments == {<<0>>, <<1>>, <<3>>, <<1, 0, 2>>}
=============================================================================
