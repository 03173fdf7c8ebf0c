-------------------------- MODULE MCTemplateManager --------------------------
(***************************************************************************)
(* Small instances of TemplateManager for TLC.                             *)
(***************************************************************************)
EXTENDS TemplateManager

\* The order of webEncoder.ts.
EncoderOrder == <<"Configurations", "LepusCode", "CustomSections", "StyleInfo", "Manifest">>
=============================================================================
