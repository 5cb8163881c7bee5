--------------------------- MODULE MCEmbeddingWorker ---------------------------
(* Small instances of EmbeddingWorker: three texts, two of them of one content     *)
(* under different headings, or a single text.                                      *)
EXTENDS EmbeddingWorker

CONSTANTS t1, t2, t3, x, y

OneSharedContent == [t \in {t1, t2, t3} |-> IF t = t3 THEN y ELSE x]
OneText == [t \in {t1} |-> x]
=============================================================================
