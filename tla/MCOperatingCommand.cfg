CONSTANTS
    NoValue = NoValue
    Unread <- MCUnread
    WriteQueueLength = 2
    MaxTaps = 2
SPECIFICATION Spec
PROPERTIES
    BumplessTransfer
    WishIsCarriedOut
    SwitchesComeToShowMachine
