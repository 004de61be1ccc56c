SPECIFICATION Spec
CONSTANTS
    Pairs = {"PT","DT","HT","DP","HP","DH","HS","QT","PQ","DQ","HQ","QS"}
    Guessed = {"PT","QT","PQ","DQ","HQ","QS"}
    Imposable = {"liquid","sc","twophase"}
INVARIANT AnswersTheCall
INVARIANT DeclaredAnswers
INVARIANT RefusedQualityReadsNothing
INVARIANT DirectNeverMisreads
INVARIANT WithdrawsItsGuess
