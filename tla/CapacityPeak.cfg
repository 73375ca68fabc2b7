\* The same cluster, without any fault, restart or manual edit.
SPECIFICATION Spec
CONSTANTS
    Nodes <- TwoNodes
    Pods <- TwoPods
    Budget <- Nothing
PROPERTY PeakNeverFalls
