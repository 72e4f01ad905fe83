----------------------------- MODULE MCPipeline -----------------------------
(* One book.  The OCR tool has two versions and may change and change back:*)
(* it has a say in the review, and through it in what is encoded, although *)
(* the fingerprint of Encode does not name it.                             *)
EXTENDS Pipeline, TLC

MCChanging == {"ocr"}

Symmetry == Permutations(Versions)
=============================================================================
