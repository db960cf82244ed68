----------------------------- MODULE MCImagesFile -----------------------------
(* A small instance of ImagesFile for TLC: the outputs are an image ID,      *)
(* nothing, and a log line before the ID; two of the three catalog names     *)
(* contain a separator.                                                      *)
EXTENDS ImagesFile

MCWords == {"java", "maven", "tools", "base", "time", "warning", "a"}

MCImageNames == <<"java", "maven">>

MCOutputs == { <<>>, <<"a">>, <<"time", Equals, "warning", Comma, Newline, "a">> }

MCCatalogNames == { <<"tools">>, <<"tools", Comma, "base">>, <<"tools", Equals, "base">> }

ASSUME OutputsAreNoLines == NoOutputIsALine
==============================================================================
