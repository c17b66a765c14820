SPECIFICATION ClickSpec
CONSTANTS
    MaxInterval = 3
    MaxPosts = 3
INVARIANTS
    KeepsClicking
    ClicksSpaced
PROPERTIES
    Drains
