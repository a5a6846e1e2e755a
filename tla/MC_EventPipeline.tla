-------------------------- MODULE MC_EventPipeline --------------------------
(* Instantiation of EventPipeline for TLC: split at the payload root, then *)
(* modify upper-casing "content", then the Discord sender.  The receiver   *)
(* may emit any payload of the abstraction.                                *)
EXTENDS EventPipeline

MCSplitPath == ""

MCModifyPaths == <<"content">>

\* Every payload of the abstraction: null, scalars, objects, and arrays of
\* up to MaxArray scalars or objects.
MCRootPayloads == Values
=============================================================================
