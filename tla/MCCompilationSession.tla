------------------------ MODULE MCCompilationSession ------------------------
EXTENDS CompilationSession

CONSTANTS Diagnostics   \* limit of the diagnostics

MCLimit == [k \in Resource |->
              CASE k = "diagnostics" -> Diagnostics
                [] k = "allocation_count" -> SizeMax
                [] OTHER -> SizeMax - 1]
=============================================================================
