SPECIFICATION SpecAfterNew
CONSTANT MaxCallbacks = 2
INVARIANT StallNotMistaken
