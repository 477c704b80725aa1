CONSTANTS
    Hosts <- MCHosts
    Ports = {0, 65535, 65616}
    MaxSends = 1
    Answers <- MCAnswers
    None = None
SPECIFICATION Spec
INVARIANTS TypeOK AnsweredMeansDialled TargetReached TunnelNeverLocal WaitingClientKeeps
 
CHECK_DEADLOCK FALSE
