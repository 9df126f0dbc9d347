\* A chain of up to one block past genesis and two changes of the node during a check,
\* enough for a node to go down after answering and come back before the
\* next probe.  perform_health_check ends after its ninth probe and main()
\* prints the report: the final state has no step by design.
CONSTANTS
    MaxHead = 1
    MaxChanges = 2

SPECIFICATION Spec
CHECK_DEADLOCK FALSE
INVARIANT TypeOK
INVARIANT BlockTimeOfReportedBlock
