SPECIFICATION Spec
CONSTANTS
    Pairs = {"PT","DQ"}
    Guessed = {}
    Imposable = {"liquid","gas","scliq","sc","twophase"}
INVARIANT UnimposedAnswers
