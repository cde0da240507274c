SPECIFICATION Spec
CONSTANTS
    Subscribers <- MCSubscribers
    Prompt <- MCPrompt
    Keys <- MCKeys
    Shapes <- MCShapes
    ReplayRequests <- MCReplayRequests
    Depth = 1
    ReplayMax = 2
    MaxEvents = 3
PROPERTIES
    ReplayAsRequested
