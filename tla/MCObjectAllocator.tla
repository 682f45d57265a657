-------------------------- MODULE MCObjectAllocator --------------------------
(***************************************************************************)
(* A small machine for TLC.  The unit of memory is the smallest object; a  *)
(* page is 2 units and a large page 8.                                     *)
(***************************************************************************)
EXTENDS ObjectAllocator, TLC

ut(base, end, device) == [base |-> base, end |-> end, device |-> device]

\* Device memory of three sizes, one of them at address 0, and two normal
\* untyped objects.
MCUntyped == <<ut(0, 8, TRUE), ut(16, 32, TRUE), ut(48, 52, TRUE),
               ut(36, 38, FALSE), ut(64, 96, FALSE)>>

MCAllocSize == "tcb" :> 1 @@ "page" :> 2 @@ "large" :> 8 @@ "sc" :> 4

\* The tool reckons a scheduling context of 2^n bytes as a CNode of 2^n slots.
MCKernelSize == "tcb" :> 1 @@ "page" :> 2 @@ "large" :> 8 @@ "sc" :> 1

MCFixedPages == {<<0, "page">>, <<4, "page">>, <<16, "page">>, <<22, "page">>,
                 <<24, "large">>, <<40, "page">>, <<50, "page">>}
=============================================================================
