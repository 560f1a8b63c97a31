SPECIFICATION Spec
CONSTANTS
    text = text
    NotANumber = text
    WordMin <- MCWordMin
    WordMax = 7
    MsPerMinute = 2
    MaxMinutes = 3
    Entries <- MCEntries
    InitialSetting = 2
    MaxIdle = 8
PROPERTIES
    WrongInputTakesNothing
